---------------------------- MODULE Spec2Model ----------------------------
(***************************************************************************)
(* A model of the Lox tree-walking interpreter of this repository:         *)
(*   - the driver Loxer::run (src/src/loxer.rs),                           *)
(*   - the static resolver (src/src/resolver.rs), as recursive operators   *)
(*     over the syntax tree,                                               *)
(*   - the interpreter (src/src/interpreter.rs, function.rs, loxclass.rs), *)
(*     as a small-step machine: the recursion of the visitor is an         *)
(*     explicit stack of frames, one frame per suspended Rust call,        *)
(*   - the environment chain (src/src/env.rs) on a heap of environments.   *)
(*                                                                         *)
(* Rc<RefCell<..>> objects are cells of a heap (a sequence); a reference   *)
(* is the index of its cell.  Option::None of a reference is NoRef.        *)
(* A Rust panic ends the process: pc = "panicked".                         *)
(***************************************************************************)
EXTENDS Integers, Sequences, FiniteSets, TLC

VARIABLES
    pc,           \* where Loxer::run stands
    mode,         \* MODE of this run: "PROMPT" or "FILE"
    scanner,      \* Scanner of this run: NotRun or [had_error]
    stmts,        \* result of Parser::parse: NotRun, Ok(stmts) or Err
    resolver,     \* Resolver of this run: NotRun or [has_error]
    environment,  \* Interpreter.environment (a reference into envs)
    locals,       \* Interpreter.locals : Token -> depth
    envs,         \* heap of Environment cells
    classes,      \* heap of LoxClass cells
    instances,    \* heap of LoxInstance cells
    ctl,          \* what the interpreter is doing / the Result in flight
    stack,        \* suspended Rust calls of the interpreter, innermost last
    result,       \* result of Interpreter::interpret: NotRun, Ok or Err(e)
    printed,      \* what print statements wrote to stdout, in order
    exit_code,    \* argument of std::process::exit, NoExit while running
    call          \* the call a harness made last: of the Environment API in
                  \* SpecEnv, of run_prompt in SpecPrompt; NoCall under Spec

vars == <<pc, mode, scanner, stmts, resolver, environment, locals, envs,
          classes, instances, ctl, stack, result, printed, exit_code, call>>

-----------------------------------------------------------------------------
(* Bounds of the model. *)

\* Number of blocks the driver's input programs are wrapped in: 0..MaxNest.
MaxNest == 1

\* Number of Environment cells SpecEnv allocates.
MaxEnvs == 3

-----------------------------------------------------------------------------
(* Small helpers: finite maps (HashMap), Option, Result. *)

NoRef == 0

\* Interpreter.globals: the first environment of the heap.
globals == 1

EmptyMap == <<>>

MapPut(m, k, v) == [x \in (DOMAIN m) \cup {k} |-> IF x = k THEN v ELSE m[x]]

Some(v) == [tag |-> "Some", v |-> v]

None == [tag |-> "None"]

\* The outcome of an operation that hit a Rust panic.
Panic == [tag |-> "Panic"]

NotRun == [tag |-> "NotRun"]

Ok(v) == [tag |-> "Ok", v |-> v]

Err(e) == [tag |-> "Err", e |-> e]

Unit == "()"

-----------------------------------------------------------------------------
(* Tokens (token.rs). *)

Token(lexeme, token_type, line, column) ==
    [lexeme |-> lexeme, token_type |-> token_type, line |-> line, column |-> column]

\* An Identifier token.
Id(lexeme, line, column) == Token(lexeme, "Identifier", line, column)

-----------------------------------------------------------------------------
(* Runtime values (object.rs) and errors. *)

Nil == [t |-> "Nil"]

Boolean(b) == [t |-> "Boolean", b |-> b]

\* NumberType: Integer(i64) or Float(f64).  A Float is kept as the fraction
\* n/d in lowest terms with d > 0; d = 0 stands for the infinities (n = 1,
\* n = -1) and for NaN (n = 0).  Rounding, the sign of zero and the overflow
\* of i64 are not represented.
NumInteger(n) == [nt |-> "Integer", n |-> n]

\* The Float (n as f64) of a whole n.
NumFloat(n) == [nt |-> "Float", n |-> n, d |-> 1]

RECURSIVE Gcd(_, _)
Gcd(a, b) == IF b = 0 THEN a ELSE Gcd(b, a % b)

\* The Float n/d, d >= 0.
Ratio(n, d) ==
    LET abs == IF n < 0 THEN -n ELSE n
        g == Gcd(abs, d)
    IN IF d = 0
       THEN [nt |-> "Float", n |-> IF n > 0 THEN 1 ELSE IF n < 0 THEN -1 ELSE 0,
             d |-> 0]
       ELSE [nt |-> "Float", n |-> n \div g, d |-> d \div g]

Number(num) == [t |-> "Number", num |-> num]

String(s) == [t |-> "String", s |-> s]

Callable(f) == [t |-> "Callable", f |-> f]

Class(ref) == [t |-> "Class", ref |-> ref]

Instance(ref) == [t |-> "Instance", ref |-> ref]

RuntimeError(token) == [tag |-> "RuntimeError", token |-> token]

Return(value) == [tag |-> "Return", value |-> value]

SyntaxError == [tag |-> "SyntaxError"]

Error(message, error_type) == [message |-> message, error_type |-> error_type]

\* error::parse_error: the line report prints,
\* "[line: {line}] Error{whr}: {message}".
parse_error(token, msg) ==
    [line |-> token.line,
     whr |-> IF token.token_type = "Eof" THEN " at end"
             ELSE " at '" \o token.lexeme \o "'",
     message |-> msg]

-----------------------------------------------------------------------------
(* Syntax trees (expression.rs, statement.rs).  A node is a record whose    *)
(* field k names the variant; Option<..> fields hold Some(x) or None.       *)

LitString(s) == [lit |-> "String", s |-> s]

LitNumber(num) == [lit |-> "Number", num |-> num]

LitBoolean(b) == [lit |-> "Boolean", b |-> b]

LitNil == [lit |-> "Nil"]

Literal(value) == [k |-> "Literal", value |-> value]

Unary(operator, right) == [k |-> "Unary", operator |-> operator, right |-> right]

Binary(left, operator, right) ==
    [k |-> "Binary", left |-> left, operator |-> operator, right |-> right]

Grouping(expression) == [k |-> "Grouping", expression |-> expression]

Variable(name) == [k |-> "Variable", name |-> name]

Assign(name, value) == [k |-> "Assign", name |-> name, value |-> value]

Logical(left, operator, right) ==
    [k |-> "Logical", left |-> left, operator |-> operator, right |-> right]

Call(callee, paren, arguments) ==
    [k |-> "Call", callee |-> callee, paren |-> paren, arguments |-> arguments]

Get(object, name) == [k |-> "Get", object |-> object, name |-> name]

SetExpr(object, name, value) ==
    [k |-> "Set", object |-> object, name |-> name, value |-> value]

This(keyword) == [k |-> "This", keyword |-> keyword]

Super(keyword, method) == [k |-> "Super", keyword |-> keyword, method |-> method]

ExprStmt(expression) == [k |-> "ExprStmt", expression |-> expression]

IfStmt(condition, then_branch, else_branch) ==
    [k |-> "IfStmt", condition |-> condition, then_branch |-> then_branch,
     else_branch |-> else_branch]

PrintStmt(expression) == [k |-> "PrintStmt", expression |-> expression]

VarStmt(name, initializer) == [k |-> "VarStmt", name |-> name, initializer |-> initializer]

BlockStmt(statements) == [k |-> "BlockStmt", statements |-> statements]

WhileStmt(condition, body) == [k |-> "WhileStmt", condition |-> condition, body |-> body]

FunStmt(name, params, body) ==
    [k |-> "FunStmt", name |-> name, params |-> params, body |-> body]

ReturnStmt(keyword, value) == [k |-> "ReturnStmt", keyword |-> keyword, value |-> value]

ClassStmt(name, super_class, methods) ==
    [k |-> "ClassStmt", name |-> name, super_class |-> super_class, methods |-> methods]

-----------------------------------------------------------------------------
(* Environment (env.rs).  A heap h is a sequence of cells                   *)
(* [enclosing, values]; the operators take and return the heap.            *)

\* A plausible slip: the enclosing environment is dropped.
Environment_new_detached(enclosing) == [enclosing |-> NoRef, values |-> EmptyMap]

Environment_new(enclosing) == [enclosing |-> enclosing, values |-> EmptyMap]

Environment_define(h, self, name, value) ==
    [h EXCEPT ![self].values = MapPut(@, name, value)]

RECURSIVE Environment_get(_, _, _)
Environment_get(h, self, name) ==
    IF name \in DOMAIN h[self].values
    THEN Some(h[self].values[name])
    ELSE IF h[self].enclosing # NoRef
         THEN Environment_get(h, h[self].enclosing, name)
         ELSE None

RECURSIVE Environment_assign(_, _, _, _)
\* A plausible slip: an assignment to an unbound name defines it.
Environment_assign_defining(h, self, name, value) ==
    IF name.lexeme \in DOMAIN h[self].values
    THEN [heap |-> [h EXCEPT ![self].values[name.lexeme] = value], res |-> Ok(Unit)]
    ELSE IF h[self].enclosing # NoRef
         THEN Environment_assign(h, h[self].enclosing, name, value)
         ELSE [heap |-> Environment_define(h, self, name.lexeme, value), res |-> Ok(Unit)]

Environment_assign(h, self, name, value) ==
    IF name.lexeme \in DOMAIN h[self].values
    THEN [heap |-> [h EXCEPT ![self].values[name.lexeme] = value], res |-> Ok(Unit)]
    ELSE IF h[self].enclosing # NoRef
         THEN Environment_assign(h, h[self].enclosing, name, value)
         ELSE [heap |-> h,
               res |-> Err(Error("Undefined variable '" \o name.lexeme \o "'.",
                                 RuntimeError(name)))]

\* The loop `for _ in 1..distance` of ancestor: n more links from environment.
\* NoRef stands for the panic of expect("No enclosing environment found.").
RECURSIVE AncestorLoop(_, _, _)
AncestorLoop(h, env, n) ==
    IF n = 0 THEN env
    ELSE IF h[env].enclosing = NoRef THEN NoRef
         ELSE AncestorLoop(h, h[env].enclosing, n - 1)

Environment_ancestor(h, self, distance) ==
    IF h[self].enclosing = NoRef THEN NoRef
    ELSE AncestorLoop(h, h[self].enclosing, IF distance > 1 THEN distance - 1 ELSE 0)

Environment_get_at(h, self, distance, name) ==
    IF distance > 0
    THEN LET a == Environment_ancestor(h, self, distance)
         IN IF a = NoRef THEN Panic ELSE Environment_get(h, a, name)
    ELSE Environment_get(h, self, name)

Environment_assign_at(h, self, distance, name, value) ==
    IF distance > 0
    THEN LET a == Environment_ancestor(h, self, distance)
         IN IF a = NoRef THEN [heap |-> h, res |-> Panic]
            ELSE Environment_assign(h, a, name, value)
    ELSE Environment_assign(h, self, name, value)

-----------------------------------------------------------------------------
(* Resolver (resolver.rs).  The Resolver value r is the record              *)
(* [scopes, current_function, current_class, has_error, locals, reported];  *)
(* locals is the interpreter's side table, which the resolver writes        *)
(* through Interpreter::resolve, and reported lists what parse_error wrote  *)
(* to stderr.  Every Result of the resolver is Ok, so `?` and    *)
(* the unwrap of Loxer::run never fire and the operators return r alone.    *)
(* Where one step follows another, Evaluated(r1) makes TLC compute the      *)
(* first before it starts the second.                                       *)

Evaluated(r) == r.has_error \in BOOLEAN

\* A plausible slip: the entry is never recorded.
Interpreter_resolve_dropped(table, token, depth) == table

Interpreter_resolve(table, token, depth) == MapPut(table, token, depth)

Resolver_new(table) ==
    [scopes |-> <<>>, current_function |-> "None", current_class |-> "None",
     has_error |-> FALSE, locals |-> table, reported |-> <<>>]

\* `parse_error(token, message); self.has_error = true;`
static_error(r, token, message) ==
    [r EXCEPT !.has_error = TRUE,
              !.reported = Append(@, parse_error(token, message))]

begin_scope(r) == [r EXCEPT !.scopes = Append(@, EmptyMap)]

end_scope(r) == [r EXCEPT !.scopes = SubSeq(@, 1, Len(@) - 1)]

\* A plausible slip: a name already in the scope is declared again silently.
declare_unchecked(r, name) ==
    IF r.scopes = <<>> THEN r
    ELSE [r EXCEPT !.scopes[Len(r.scopes)] = MapPut(@, name.lexeme, FALSE)]

declare(r, name) ==
    IF r.scopes = <<>> THEN r
    ELSE LET n == Len(r.scopes)
             r1 == IF name.lexeme \in DOMAIN r.scopes[n]
                   THEN static_error(r, name,
                            "Variable with this name already declared in this scope.")
                   ELSE r
         IN [r1 EXCEPT !.scopes[n] = MapPut(@, name.lexeme, FALSE)]

define(r, name) ==
    IF r.scopes = <<>> THEN r
    ELSE [r EXCEPT !.scopes[Len(r.scopes)] = MapPut(@, name.lexeme, TRUE)]

\* The loop of resolve_local over scopes.iter().enumerate().rev(); i is the
\* 1-based index of the scope looked at, so len - i is Rust's len - i - 1.
RECURSIVE resolve_local_loop(_, _, _)
resolve_local_loop(r, name, i) ==
    IF i = 0 THEN r
    ELSE IF name.lexeme \in DOMAIN r.scopes[i]
         THEN [r EXCEPT !.locals = Interpreter_resolve(@, name, Len(r.scopes) - i)]
         ELSE resolve_local_loop(r, name, i - 1)

\* A plausible slip: the innermost scope is skipped.
resolve_local_outer(r, name) ==
    IF r.scopes = <<>> THEN r ELSE resolve_local_loop(r, name, Len(r.scopes) - 1)

resolve_local(r, name) == resolve_local_loop(r, name, Len(r.scopes))

RECURSIVE resolve_expr(_, _), resolve_exprs(_, _), resolve_stmt(_, _),
          resolve_stmts(_, _), resolve_function(_, _, _, _), resolve_methods(_, _)

declare_define_params(r, params) ==
    LET RECURSIVE go(_, _)
        go(rr, i) == IF i > Len(params) THEN rr
                     ELSE go(define(declare(rr, params[i]), params[i]), i + 1)
    IN go(r, 1)

\* A plausible slip: the function type of the body stays current afterwards.
resolve_function_unrestored(r, params, body, func_type) ==
    LET r1 == begin_scope([r EXCEPT !.current_function = func_type])
        r2 == declare_define_params(r1, params)
    IN end_scope(resolve_stmts(r2, body))

resolve_function(r, params, body, func_type) ==
    LET enclosing_function == r.current_function
        r1 == begin_scope([r EXCEPT !.current_function = func_type])
        r2 == declare_define_params(r1, params)
        r3 == end_scope(resolve_stmts(r2, body))
    IN [r3 EXCEPT !.current_function = enclosing_function]

\* The loop `for method in methods` of resolve_class.
resolve_methods(r, methods) ==
    IF methods = <<>> THEN r
    ELSE LET m == Head(methods)
             r1 == resolve_function(r, m.params, m.body,
                       IF m.name.lexeme # "init" THEN "Method" ELSE "Initializer")
         IN IF Evaluated(r1) THEN resolve_methods(r1, Tail(methods)) ELSE r1

\* A plausible slip: the class type of the body stays current afterwards.
resolve_class_unrestored(r, methods, class_type) ==
    LET r1 == begin_scope([r EXCEPT !.current_class = class_type])
        r2 == [r1 EXCEPT !.scopes[Len(r1.scopes)] = MapPut(@, "this", TRUE)]
    IN end_scope(resolve_methods(r2, methods))

resolve_class(r, methods, class_type) ==
    LET enclosing_class == r.current_class
        r1 == begin_scope([r EXCEPT !.current_class = class_type])
        r2 == [r1 EXCEPT !.scopes[Len(r1.scopes)] = MapPut(@, "this", TRUE)]
        r3 == end_scope(resolve_methods(r2, methods))
    IN [r3 EXCEPT !.current_class = enclosing_class]

Resolver_visit_variable_expr(r, expr) ==
    LET own == r.scopes # <<>>
                 /\ expr.name.lexeme \in DOMAIN r.scopes[Len(r.scopes)]
                 /\ r.scopes[Len(r.scopes)][expr.name.lexeme] = FALSE
    IN resolve_local(IF own
                     THEN static_error(r, expr.name,
                              "Cannot read local variable in its own initializer.")
                     ELSE r,
                     expr.name)

Resolver_visit_this_expr(r, expr) ==
    IF r.current_class = "None"
    THEN static_error(r, expr.keyword, "Cannot use 'this' outside of a class.")
    ELSE resolve_local(r, expr.keyword)

Resolver_visit_super_expr(r, expr) ==
    resolve_local(IF r.current_class = "None"
                  THEN static_error(r, expr.keyword,
                           "Cannot use 'super' outside of a class.")
                  ELSE IF r.current_class = "Class"
                  THEN static_error(r, expr.keyword,
                           "Cannot use 'super' in a class with no superclass.")
                  ELSE r,
                  expr.keyword)

Resolver_visit_return_stmt(r, stmt) ==
    LET r1 == IF r.current_function = "None"
              THEN static_error(r, stmt.keyword, "Cannot return from top-level code.")
              ELSE IF r.current_function = "Initializer" /\ stmt.value # None
              THEN static_error(r, stmt.keyword,
                       "Cannot return a value from an initializer.")
              ELSE r
    IN IF stmt.value # None THEN resolve_expr(r1, stmt.value.v) ELSE r1

Resolver_visit_class_stmt(r, stmt) ==
    LET r1 == define(declare(r, stmt.name), stmt.name)
        sup == stmt.super_class
        r2 == IF sup # None
              THEN resolve_expr(
                       IF sup.v.k = "Variable" /\ stmt.name.lexeme = sup.v.name.lexeme
                       THEN static_error(r1, stmt.name,
                                "A class cannot inherit from itself.")
                       ELSE r1,
                       sup.v)
              ELSE r1
        current_class == IF sup # None THEN "Subclass" ELSE "Class"
        r3 == IF sup # None
              THEN LET b == begin_scope(r2)
                   IN [b EXCEPT !.scopes[Len(b.scopes)] = MapPut(@, "super", TRUE)]
              ELSE r2
        r4 == resolve_class(r3, stmt.methods, current_class)
    IN IF sup # None THEN end_scope(r4) ELSE r4

resolve_exprs(r, exprs) ==
    IF exprs = <<>> THEN r
    ELSE LET r1 == resolve_expr(r, Head(exprs))
         IN IF Evaluated(r1) THEN resolve_exprs(r1, Tail(exprs)) ELSE r1

\* Expr::accept with the Resolver as the visitor.
resolve_expr(r, expr) ==
    CASE expr.k = "Literal" -> r
      [] expr.k = "Variable" -> Resolver_visit_variable_expr(r, expr)
      [] expr.k = "Assign" -> resolve_local(resolve_expr(r, expr.value), expr.name)
      [] expr.k \in {"Binary", "Logical"} ->
            LET r1 == resolve_expr(r, expr.left)
            IN IF Evaluated(r1) THEN resolve_expr(r1, expr.right) ELSE r1
      [] expr.k = "Unary" -> resolve_expr(r, expr.right)
      [] expr.k = "Grouping" -> resolve_expr(r, expr.expression)
      [] expr.k = "Call" -> resolve_exprs(resolve_expr(r, expr.callee), expr.arguments)
      [] expr.k = "Get" -> resolve_expr(r, expr.object)
      [] expr.k = "Set" -> resolve_expr(resolve_expr(r, expr.object), expr.value)
      [] expr.k = "This" -> Resolver_visit_this_expr(r, expr)
      [] expr.k = "Super" -> Resolver_visit_super_expr(r, expr)

\* Stmt::accept with the Resolver as the visitor.
resolve_stmt(r, stmt) ==
    CASE stmt.k = "BlockStmt" -> end_scope(resolve_stmts(begin_scope(r), stmt.statements))
      [] stmt.k = "VarStmt" ->
            LET r1 == declare(r, stmt.name)
                r2 == IF stmt.initializer # None
                      THEN resolve_expr(r1, stmt.initializer.v) ELSE r1
            IN define(r2, stmt.name)
      [] stmt.k = "FunStmt" ->
            resolve_function(define(declare(r, stmt.name), stmt.name),
                             stmt.params, stmt.body, "Function")
      [] stmt.k \in {"ExprStmt", "PrintStmt"} -> resolve_expr(r, stmt.expression)
      [] stmt.k = "IfStmt" ->
            LET r1 == resolve_stmt(resolve_expr(r, stmt.condition), stmt.then_branch)
            IN IF stmt.else_branch # None THEN resolve_stmt(r1, stmt.else_branch.v) ELSE r1
      [] stmt.k = "ReturnStmt" -> Resolver_visit_return_stmt(r, stmt)
      [] stmt.k = "WhileStmt" -> resolve_stmt(resolve_expr(r, stmt.condition), stmt.body)
      [] stmt.k = "ClassStmt" -> Resolver_visit_class_stmt(r, stmt)

resolve_stmts(r, ss) ==
    IF ss = <<>> THEN r
    ELSE LET r1 == resolve_stmt(r, Head(ss))
         IN IF Evaluated(r1) THEN resolve_stmts(r1, Tail(ss)) ELSE r1

-----------------------------------------------------------------------------
(* The Environment API on its own: a chain of at most MaxEnvs environments  *)
(* built by Environment::new and define, and the four calls get, get_at,    *)
(* assign and assign_at made on any environment of the chain.  The variable *)
(* call records the last call and what it returned.                         *)

\* The names define binds.
EnvNames == {"x", "y"}

\* The names the four calls are made with.
CallNames == {"x"}

\* define binds to Defined, assign and assign_at write Assigned.
Defined == Number(NumInteger(1))

Assigned == Number(NumInteger(2))

NoCall ==
    [op |-> "none", self |-> NoRef, distance |-> 0, name |-> "", result |-> None]

\* The driver and the interpreter are not running.
DriverIdle ==
    /\ pc = "idle"
    /\ mode = "FILE"
    /\ scanner = NotRun
    /\ stmts = NotRun
    /\ resolver = NotRun
    /\ environment = globals
    /\ locals = EmptyMap
    /\ classes = <<>>
    /\ instances = <<>>
    /\ ctl = [m |-> "idle"]
    /\ stack = <<>>
    /\ result = NotRun
    /\ printed = <<>>
    /\ exit_code = "NoExit"

DriverUnchanged ==
    UNCHANGED <<pc, mode, scanner, stmts, resolver, environment, locals, classes,
                instances, ctl, stack, result, printed, exit_code>>

EnvInit ==
    /\ DriverIdle
    /\ envs = <<Environment_new(NoRef)>>
    /\ call = NoCall

\* Environment::new(Some(enclosing)), enclosing being the newest environment.
ENew ==
    /\ Len(envs) < MaxEnvs
    /\ envs' = Append(envs, Environment_new(Len(envs)))
    /\ call' = NoCall
    /\ DriverUnchanged

EDefine ==
    /\ \E self \in 1..Len(envs), name \in EnvNames :
           envs' = Environment_define(envs, self, name, Defined)
    /\ call' = NoCall
    /\ DriverUnchanged

EGet ==
    /\ \E self \in 1..Len(envs), name \in CallNames :
           call' = [op |-> "get", self |-> self, distance |-> 0, name |-> name,
                    result |-> Environment_get(envs, self, name)]
    /\ UNCHANGED envs
    /\ DriverUnchanged

EGetAt ==
    /\ \E self \in 1..Len(envs), distance \in 0..(MaxEnvs - 1), name \in CallNames :
           call' = [op |-> "get_at", self |-> self, distance |-> distance,
                    name |-> name,
                    result |-> Environment_get_at(envs, self, distance, name)]
    /\ UNCHANGED envs
    /\ DriverUnchanged

EAssign ==
    /\ \E self \in 1..Len(envs), name \in CallNames :
           LET r == Environment_assign(envs, self, Id(name, 1, 1), Assigned)
           IN /\ envs' = r.heap
              /\ call' = [op |-> "assign", self |-> self, distance |-> 0,
                          name |-> name, result |-> r.res]
    /\ DriverUnchanged

EAssignAt ==
    /\ \E self \in 1..Len(envs), distance \in 0..(MaxEnvs - 1), name \in CallNames :
           LET r == Environment_assign_at(envs, self, distance, Id(name, 1, 1), Assigned)
           IN /\ envs' = r.heap
              /\ call' = [op |-> "assign_at", self |-> self, distance |-> distance,
                          name |-> name, result |-> r.res]
    /\ DriverUnchanged

EnvNext == ENew \/ EDefine \/ EGet \/ EGetAt \/ EAssign \/ EAssignAt

SpecEnv == EnvInit /\ [][EnvNext]_vars

\* The environments from e outwards, nearest first.
RECURSIVE Chain(_, _)
Chain(h, e) == IF e = NoRef THEN <<>> ELSE <<e>> \o Chain(h, h[e].enclosing)

\* The environments of Chain(h, e) that bind name, as indexes of the chain.
Binders(h, e, name) ==
    {i \in 1..Len(Chain(h, e)) : name \in DOMAIN h[Chain(h, e)[i]].values}

\* The nearest environment of the chain of e that binds name, or NoRef.
Nearest(h, e, name) ==
    IF Binders(h, e, name) = {} THEN NoRef
    ELSE Chain(h, e)[CHOOSE i \in Binders(h, e, name) :
                        \A j \in Binders(h, e, name) : i <= j]

\* C8: Environment::assign overwrites the binding of the name in the nearest
\* environment of the chain that binds it and changes no other binding and no
\* other environment; if no environment of the chain binds the name it
\* returns the error "Undefined variable 'X'." and leaves every environment
\* unchanged.  In both cases no environment gains a name: assignment never
\* creates a variable.
C8_AssignNearest ==
    [][call'.op = "assign" =>
         LET n == Nearest(envs, call'.self, call'.name)
         IN /\ \A e \in 1..Len(envs) : DOMAIN envs'[e].values = DOMAIN envs[e].values
            /\ Len(envs') = Len(envs)
            /\ IF n = NoRef
               THEN /\ envs' = envs
                    /\ call'.result.tag = "Err"
                    /\ call'.result.e.message
                         = "Undefined variable '" \o call'.name \o "'."
                    /\ call'.result.e.error_type.tag = "RuntimeError"
               ELSE /\ call'.result = Ok(Unit)
                    /\ envs'[n].values[call'.name] = Assigned
                    /\ \A e \in 1..Len(envs) : \A k \in DOMAIN envs[e].values :
                           (e # n \/ k # call'.name)
                               => envs'[e].values[k] = envs[e].values[k]
                    /\ \A e \in 1..Len(envs) : envs'[e].enclosing = envs[e].enclosing
    ]_vars

\* An assign through the innermost of three environments, which does not bind
\* the name, has overwritten the binding of the middle one; the binding of the
\* root and the other name of the middle one are as define left them.
C8_Witness_OuterOverwritten ==
    /\ call.op = "assign"
    /\ call.result = Ok(Unit)
    /\ call.self = 3
    /\ call.name \notin DOMAIN envs[3].values
    /\ DOMAIN envs[2].values = EnvNames
    /\ envs[2].values[call.name] = Assigned
    /\ \A k \in EnvNames \ {call.name} : envs[2].values[k] = Defined
    /\ call.name \in DOMAIN envs[1].values
    /\ envs[1].values[call.name] = Defined

\* An assign of a name no environment of the chain binds has failed.
C8_Witness_Undefined ==
    /\ call.op = "assign"
    /\ call.result.tag = "Err"
    /\ Len(envs) = MaxEnvs

\* The environment exactly d links up from e, NoRef when the chain is shorter.
RECURSIVE Up(_, _, _)
Up(h, e, d) ==
    IF e = NoRef THEN NoRef
    ELSE IF d = 0 THEN e ELSE Up(h, h[e].enclosing, d - 1)

\* C5: get_at(d, name) returns the value bound to the name in the local map
\* of the environment exactly d links up the chain, and None when the name is
\* absent from that map even if an outer environment binds it; assign_at(d,
\* name, v) writes only to that environment's local map and fails when the
\* name is absent from it.  (Stated for the distances the chain has.)
C5_ExactDistance ==
    [][LET a == Up(envs, call'.self, call'.distance)
       IN /\ (call'.op = "get_at" /\ a # NoRef) =>
                 call'.result = IF call'.name \in DOMAIN envs[a].values
                                THEN Some(envs[a].values[call'.name])
                                ELSE None
          /\ (call'.op = "assign_at" /\ a # NoRef) =>
                 IF call'.name \in DOMAIN envs[a].values
                 THEN /\ call'.result = Ok(Unit)
                      /\ envs' = [envs EXCEPT ![a].values[call'.name] = Assigned]
                 ELSE /\ call'.result.tag = "Err"
                      /\ envs' = envs
    ]_vars

-----------------------------------------------------------------------------
(* Values of the interpreter (function.rs, loxclass.rs, object.rs).         *)
(* String ordering, lists and indexing are outside this model.              *)

\* Function::UserDefined; closure is a reference into the heap of environments.
UserDefined(name, params, body, closure, is_initializer) ==
    [kind |-> "UserDefined", name |-> name, params |-> params, body |-> body,
     closure |-> closure, is_initializer |-> is_initializer]

\* Function::Native.
Native(name, arity) == [kind |-> "Native", name |-> name, arity |-> arity]

LoxClass_new(name, methods, super_class) ==
    [name |-> name, methods |-> methods, super_class |-> super_class]

LoxInstance_new(class) == [class |-> class, fields |-> EmptyMap]

\* The values the native clock can return (seconds since the epoch).
ClockTimes == {1, 2}

\* A plausible slip: zero and the empty string count as false, as in C.
is_truthy_like_c(object) ==
    IF object = Nil THEN FALSE
    ELSE IF object.t = "Boolean" THEN object.b
    ELSE IF object.t = "Number" THEN object.num.n # 0
    ELSE IF object.t = "String" THEN object.s # ""
    ELSE TRUE

is_truthy(object) ==
    IF object = Nil THEN FALSE
    ELSE IF object.t = "Boolean" THEN object.b ELSE TRUE

\* A plausible slip: only a native function has an arity.
Function_arity_native(f) == IF f.kind = "Native" THEN f.arity ELSE 0

Function_arity(f) == IF f.kind = "Native" THEN f.arity ELSE Len(f.params)

\* A plausible slip: only the class's own methods are searched.
LoxClass_get_method_own(cs, c, name) ==
    IF name \in DOMAIN cs[c].methods THEN Some(cs[c].methods[name]) ELSE None

RECURSIVE LoxClass_get_method(_, _, _)
LoxClass_get_method(cs, c, name) ==
    IF name \in DOMAIN cs[c].methods THEN Some(cs[c].methods[name])
    ELSE IF cs[c].super_class # NoRef
         THEN LoxClass_get_method(cs, cs[c].super_class, name)
         ELSE None

\* Function::bind: a new environment binding "this", and the function closed
\* over it.  Returns the heap and the bound function.
Function_bind(h, f, instance) ==
    LET environment_inner ==
            [enclosing |-> f.closure, values |-> MapPut(EmptyMap, "this", instance)]
    IN [heap |-> Append(h, environment_inner),
        function |-> [f EXCEPT !.closure = Len(h) + 1]]

\* LoxInstance::get: fields first, then the methods of the class, bound.
LoxInstance_get(h, cs, is, ref, name) ==
    IF name \in DOMAIN is[ref].fields
    THEN [heap |-> h, res |-> Some(is[ref].fields[name])]
    ELSE LET method == LoxClass_get_method(cs, is[ref].class, name)
         IN IF method # None
            THEN LET b == Function_bind(h, method.v, Instance(ref))
                 IN [heap |-> b.heap, res |-> Some(Callable(b.function))]
            ELSE [heap |-> h, res |-> None]

LoxInstance_set(is, ref, name, value) ==
    [is EXCEPT ![ref].fields = MapPut(@, name, value)]

\* params.iter().map(|param| param.lexeme).join(", ")
RECURSIVE JoinParams(_)
JoinParams(params) ==
    IF params = <<>> THEN ""
    ELSE IF Len(params) = 1 THEN params[1].lexeme
         ELSE params[1].lexeme \o ", " \o JoinParams(Tail(params))

\* impl Display for NumberType: `{}` of an i64 or of an f64.  A fraction is
\* written with at most 16 decimals.
RECURSIVE Decimals(_, _, _)
Decimals(r, d, k) ==
    IF r = 0 \/ k = 0 THEN ""
    ELSE ToString((r * 10) \div d) \o Decimals((r * 10) % d, d, k - 1)

NumberType_to_string(x) ==
    IF x.nt = "Integer" \/ x.d = 1 THEN ToString(x.n)
    ELSE IF x.d = 0
         THEN (IF x.n > 0 THEN "inf" ELSE IF x.n < 0 THEN "-inf" ELSE "NaN")
         ELSE LET abs == IF x.n < 0 THEN -x.n ELSE x.n
              IN (IF x.n < 0 THEN "-" ELSE "") \o ToString(abs \div x.d) \o "."
                     \o Decimals(abs % x.d, x.d, 16)

stringify(cs, is, object) ==
    CASE object.t = "Nil" -> "nil"
      [] object.t = "Boolean" -> IF object.b THEN "true" ELSE "false"
      [] object.t = "Number" -> NumberType_to_string(object.num)
      [] object.t = "String" -> object.s
      [] object.t = "Callable" ->
            IF object.f.kind = "Native" THEN "native <fn " \o object.f.name \o ">"
            ELSE "user define <fn " \o object.f.name.lexeme \o "("
                     \o JoinParams(object.f.params) \o ")>"
      [] object.t = "Class" -> "<class " \o cs[object.ref].name \o ">"
      [] object.t = "Instance" ->
            "<instance of " \o cs[is[object.ref].class].name \o ">"

visit_literal_expr(value) ==
    CASE value.lit = "Boolean" -> Ok(Boolean(value.b))
      [] value.lit = "Nil" -> Ok(Nil)
      [] value.lit = "Number" -> Ok(Number(value.num))
      [] value.lit = "String" -> Ok(String(value.s))

number_operand_error(operator) ==
    Err(Error("Operand of " \o operator.token_type \o " must be a number.",
              RuntimeError(operator)))

\* i64 division truncates towards zero.
TruncDiv(a, b) ==
    LET abs(x) == IF x < 0 THEN -x ELSE x
        q == abs(a) \div abs(b)
    IN IF (a < 0) = (b < 0) THEN q ELSE -q

\* NumberType::as_float.
as_float(x) == IF x.nt = "Integer" THEN NumFloat(x.n) ELSE x

\* f64 arithmetic and comparison (IEEE 754 without rounding).
IsNaN(a) == a.d = 0 /\ a.n = 0

FloatAdd(a, b) ==
    IF a.d = 0 /\ b.d = 0 THEN (IF a = b THEN a ELSE Ratio(0, 0))
    ELSE Ratio(a.n * b.d + b.n * a.d, a.d * b.d)

FloatSub(a, b) == FloatAdd(a, [b EXCEPT !.n = -@])

FloatMul(a, b) == Ratio(a.n * b.n, a.d * b.d)

FloatDiv(a, b) ==
    IF b.n < 0 THEN Ratio(-(a.n * b.d), a.d * (-b.n)) ELSE Ratio(a.n * b.d, a.d * b.n)

FloatLess(a, b) ==
    IF IsNaN(a) \/ IsNaN(b) THEN FALSE
    ELSE IF a.d = 0 /\ b.d = 0 THEN a.n < b.n
    ELSE a.n * b.d < b.n * a.d

FloatEq(a, b) == ~IsNaN(a) /\ ~IsNaN(b) /\ a = b

\* #[derive(PartialEq)] on NumberType: the same variant and equal payloads.
NumberType_eq(l, r) ==
    /\ l.nt = r.nt
    /\ IF l.nt = "Integer" THEN l.n = r.n ELSE FloatEq(l, r)

\* Object::equals.
Object_equals(a, b) ==
    CASE a.t = "Number" /\ b.t = "Number" -> NumberType_eq(a.num, b.num)
      [] a.t = "String" /\ b.t = "String" -> a.s = b.s
      [] a.t = "Boolean" /\ b.t = "Boolean" -> a.b = b.b
      [] a.t = "Nil" /\ b.t = "Nil" -> TRUE
      [] OTHER -> FALSE

\* NumberType::greater, greater_equal, less, less_equal: i64 comparison of
\* two Integers, f64 comparison otherwise.
NumberType_less(l, r) ==
    IF l.nt = "Integer" /\ r.nt = "Integer" THEN l.n < r.n
    ELSE FloatLess(as_float(l), as_float(r))

NumberType_less_equal(l, r) ==
    IF l.nt = "Integer" /\ r.nt = "Integer" THEN l.n <= r.n
    ELSE FloatLess(as_float(l), as_float(r)) \/ FloatEq(as_float(l), as_float(r))

NumberType_greater(l, r) == NumberType_less(r, l)

NumberType_greater_equal(l, r) == NumberType_less_equal(r, l)

\* NumberType::add, sub, mul, div: an Integer only from two Integers.
NumberType_add(l, r) ==
    IF l.nt = "Integer" /\ r.nt = "Integer" THEN Ok(NumInteger(l.n + r.n))
    ELSE Ok(FloatAdd(as_float(l), as_float(r)))

NumberType_sub(l, r) ==
    IF l.nt = "Integer" /\ r.nt = "Integer" THEN Ok(NumInteger(l.n - r.n))
    ELSE Ok(FloatSub(as_float(l), as_float(r)))

NumberType_mul(l, r) ==
    IF l.nt = "Integer" /\ r.nt = "Integer" THEN Ok(NumInteger(l.n * r.n))
    ELSE Ok(FloatMul(as_float(l), as_float(r)))

\* A plausible slip: the quotient of two Integers is promoted to a Float.
NumberType_div_promoting(l, r) ==
    IF l.nt = "Integer" /\ r.nt = "Integer" /\ r.n = 0
    THEN Err(Error("Division by zero.", SyntaxError))
    ELSE Ok(FloatDiv(as_float(l), as_float(r)))

NumberType_div(l, r) ==
    IF l.nt = "Integer" /\ r.nt = "Integer"
    THEN IF r.n = 0
         THEN Err(Error("Division by zero.", SyntaxError))
         ELSE Ok(NumInteger(TruncDiv(l.n, r.n)))
    ELSE Ok(FloatDiv(as_float(l), as_float(r)))

\* NumberType::binary_op.
NumberType_binary_op(op, l, r) ==
    CASE op.token_type = "Plus" -> NumberType_add(l, r)
      [] op.token_type = "Minus" -> NumberType_sub(l, r)
      [] op.token_type = "Star" -> NumberType_mul(l, r)
      [] op.token_type = "Slash" -> NumberType_div(l, r)
      [] OTHER -> Err(Error("Unsupported binary operation", RuntimeError(op)))

\* The contents of the strings that are compared, in the order of Rust's
\* String comparison (byte-wise lexicographic).
StringOrder == <<"", "1", "10", "2", "A", "a", "ab", "b">>

String_less(l, r) ==
    (CHOOSE i \in DOMAIN StringOrder : StringOrder[i] = l)
        < (CHOOSE i \in DOMAIN StringOrder : StringOrder[i] = r)

\* The match on operator.token_type of visit_binary_expr, both operands known.
binary_expr_result(operator, left, right) ==
    LET numbers == left.t = "Number" /\ right.t = "Number"
        strings == left.t = "String" /\ right.t = "String"
        arith == LET r == NumberType_binary_op(operator, left.num, right.num)
                 IN IF r.tag = "Ok" THEN Ok(Number(r.v)) ELSE r
        tt == operator.token_type
    IN CASE tt \in {"Minus", "Slash", "Star"} ->
               IF numbers THEN arith ELSE number_operand_error(operator)
         [] tt = "Plus" ->
               IF numbers THEN arith
               ELSE IF strings THEN Ok(String(left.s \o right.s))
               ELSE Err(Error("Operands of " \o tt
                                  \o " must be two numbers or two strings.",
                              RuntimeError(operator)))
         [] tt = "Greater" ->
               IF numbers THEN Ok(Boolean(NumberType_greater(left.num, right.num)))
               ELSE IF strings THEN Ok(Boolean(String_less(right.s, left.s)))
               ELSE number_operand_error(operator)
         [] tt = "GreaterEqual" ->
               IF numbers THEN Ok(Boolean(NumberType_greater_equal(left.num, right.num)))
               ELSE IF strings THEN Ok(Boolean(~String_less(left.s, right.s)))
               ELSE number_operand_error(operator)
         [] tt = "Less" ->
               IF numbers THEN Ok(Boolean(NumberType_less(left.num, right.num)))
               ELSE IF strings THEN Ok(Boolean(String_less(left.s, right.s)))
               ELSE number_operand_error(operator)
         [] tt = "LessEqual" ->
               IF numbers THEN Ok(Boolean(NumberType_less_equal(left.num, right.num)))
               ELSE IF strings THEN Ok(Boolean(~String_less(right.s, left.s)))
               ELSE number_operand_error(operator)
         [] tt = "BangEqual" -> Ok(Boolean(~Object_equals(left, right)))
         [] tt = "EqualEqual" -> Ok(Boolean(Object_equals(left, right)))
         [] tt = "And" -> IF ~is_truthy(left) THEN Ok(left) ELSE Ok(right)

\* The match on operator.token_type of visit_unary_expr, the operand known.
unary_expr_result(operator, right) ==
    IF operator.token_type = "Minus"
    THEN IF right.t = "Number"
         THEN Ok(Number([right.num EXCEPT !.n = -@]))
         ELSE number_operand_error(operator)
    ELSE Ok(Boolean(~is_truthy(right)))

\* Interpreter::look_up_variable: Ok(object), Err(error) or Panic.
look_up_variable(table, h, env, name) ==
    LET r == IF name \in DOMAIN table
             THEN Environment_get_at(h, env, table[name], name.lexeme)
             ELSE Environment_get(h, globals, name.lexeme)
    IN IF r = Panic THEN Panic
       ELSE IF r # None THEN Ok(r.v)
       ELSE Err(Error("Undefined variable " \o name.lexeme \o ".", RuntimeError(name)))

\* A plausible slip: an initializer that runs to its end yields nil.
Function_call_result_nil(f, h, r) ==
    IF r.tag = "Err"
    THEN IF f.is_initializer
         THEN LET this == Environment_get_at(h, f.closure, 0, "this")
              IN Ok(IF this # None THEN this.v ELSE Nil)
         ELSE IF r.e.error_type.tag = "Return" THEN Ok(r.e.error_type.value) ELSE r
    ELSE Ok(Nil)

\* A plausible slip: a Return is passed on to the caller like any error.
Function_call_result_rethrow(f, h, r) ==
    IF r.tag = "Err"
    THEN IF f.is_initializer
         THEN LET this == Environment_get_at(h, f.closure, 0, "this")
              IN Ok(IF this # None THEN this.v ELSE Nil)
         ELSE r
    ELSE IF f.is_initializer
         THEN LET this == Environment_get_at(h, f.closure, 0, "this")
              IN Ok(IF this # None THEN this.v ELSE Nil)
         ELSE Ok(Nil)

\* What Function::call returns once execute_block has returned r
\* (function.rs, the if let Err(err) = ... else ... of a UserDefined).
Function_call_result(f, h, r) ==
    IF r.tag = "Err"
    THEN IF f.is_initializer
         THEN LET this == Environment_get_at(h, f.closure, 0, "this")
              IN Ok(IF this # None THEN this.v ELSE Nil)
         ELSE IF r.e.error_type.tag = "Return" THEN Ok(r.e.error_type.value) ELSE r
    ELSE IF f.is_initializer
         THEN LET this == Environment_get_at(h, f.closure, 0, "this")
              IN Ok(IF this # None THEN this.v ELSE Nil)
         ELSE Ok(Nil)

\* A plausible slip: the environment is not restored when the block fails.
execute_block_exit_keeping(previous, current, r) ==
    IF r.tag = "Err" THEN current ELSE previous

\* The environment execute_block leaves behind: self.environment = previous.
execute_block_exit(previous, current, r) == previous

-----------------------------------------------------------------------------
(* The driver Loxer::run (loxer.rs) on a fresh Loxer.  The scanner and the  *)
(* parser are represented by their outcomes: the scanner by had_error, the  *)
(* parser by Err or by the statements of one of the programs of Cores,      *)
(* wrapped in 0..MaxNest blocks.                                            *)

\* What ctl can be.
Idle == [m |-> "idle"]

\* Interpreter::execute(stmt) is being entered.
Exec(stmt) == [m |-> "exec", stmt |-> stmt]

\* Interpreter::evaluate(expr) is being entered.
Eval(expr) == [m |-> "eval", expr |-> expr]

\* Ok(object) is being returned to the innermost frame.
Val(v) == [m |-> "val", v |-> v]

\* Ok(()) is being returned to the innermost frame; on a frame of a statement
\* loop (interpret, execute_block) also: the loop is at its head.
Done == [m |-> "unit"]

\* Err(e) is being returned to the innermost frame.
Raise(e) == [m |-> "err", e |-> e]

FromResult(r) == IF r.tag = "Ok" THEN Val(r.v) ELSE Raise(r.e)

Top == stack[Len(stack)]

Rest == SubSeq(stack, 1, Len(stack) - 1)

Push(frame) == Append(stack, frame)

Replace(frame) == Append(Rest, frame)

\* The program p inside d nested blocks.
RECURSIVE Wrap(_, _)
Wrap(p, d) == IF d = 0 THEN p ELSE <<BlockStmt(Wrap(p, d - 1))>>

\* Parser::error: the Err of Parser::parse.
ParseError == Error("Parse error.", SyntaxError)

\* Where run goes after scan_tokens: `if scanner.had_error { ...; return; }`.
after_scan(had_error) == IF had_error THEN "returned" ELSE "parse"

\* Where run goes after parse: `if let Ok(stmts) = stmts { .. } else { .. }`.
after_parse(parsed, md) ==
    IF parsed.tag = "Ok" THEN "resolve"
    ELSE IF md = "FILE" THEN "exited" ELSE "returned"

\* A plausible slip: the interpreter is started whatever the resolver found.
after_resolve_unchecked(has_error) == "interpret"

\* Where run goes after resolve_stmts: `if resolver.has_error { exit(65) }`.
after_resolve(has_error) == IF has_error THEN "exited" ELSE "interpret"

\* Where run goes after interpret: exit(70) on Err in FILE mode.
after_interpret(res, md) ==
    IF res.tag = "Err" /\ md = "FILE" THEN "exited" ELSE "returned"

\* Interpreter::new: globals holds the native clock.
Interpreter_new_envs ==
    <<[enclosing |-> NoRef,
       values |-> MapPut(EmptyMap, "clock", Callable(Native("clock", 0)))]>>

InterpreterUnchanged ==
    UNCHANGED <<environment, envs, classes, instances, ctl, stack, printed>>

Scan ==
    /\ pc = "scan"
    /\ \E had_error \in BOOLEAN :
           /\ scanner' = [had_error |-> had_error]
           /\ pc' = after_scan(had_error)
    /\ InterpreterUnchanged
    /\ UNCHANGED <<mode, stmts, resolver, locals, result, exit_code, call>>

Resolve ==
    /\ pc = "resolve"
    /\ LET r == resolve_stmts(Resolver_new(locals), stmts.v)
       IN /\ resolver' = [has_error |-> r.has_error]
          /\ locals' = r.locals
          /\ pc' = after_resolve(r.has_error)
          /\ exit_code' = IF after_resolve(r.has_error) = "exited" THEN 65 ELSE exit_code
    /\ InterpreterUnchanged
    /\ UNCHANGED <<mode, scanner, stmts, result, call>>

\* Interpreter::interpret is entered.
interpret ==
    /\ pc = "interpret"
    /\ pc' = "executing"
    /\ stack' = <<[f |-> "interpret", stmts |-> stmts.v, i |-> 0]>>
    /\ ctl' = Done
    /\ UNCHANGED <<mode, scanner, stmts, resolver, locals, result, exit_code, call,
                   environment, envs, classes, instances, printed>>

\* `for stmt in stmts { self.execute(stmt)?; }`
interpret_next ==
    /\ pc = "executing"
    /\ Top.f = "interpret"
    /\ ctl.m = "unit"
    /\ Top.i < Len(Top.stmts)
    /\ stack' = Replace([Top EXCEPT !.i = @ + 1])
    /\ ctl' = Exec(Top.stmts[Top.i + 1])
    /\ UNCHANGED <<pc, mode, scanner, stmts, resolver, locals, result, exit_code, call,
                   environment, envs, classes, instances, printed>>

\* Interpreter::interpret returns: the first Err, or Ok(()) after the loop.
interpret_return ==
    /\ pc = "executing"
    /\ Top.f = "interpret"
    /\ ctl.m = "err" \/ (ctl.m = "unit" /\ Top.i = Len(Top.stmts))
    /\ result' = IF ctl.m = "err" THEN Err(ctl.e) ELSE Ok(Unit)
    /\ stack' = <<>>
    /\ ctl' = Idle
    /\ pc' = "interpreted"
    /\ UNCHANGED <<mode, scanner, stmts, resolver, locals, exit_code, call,
                   environment, envs, classes, instances, printed>>

\* The end of run: the error is reported and, in FILE mode, the process exits.
run_return ==
    /\ pc = "interpreted"
    /\ pc' = after_interpret(result, mode)
    /\ exit_code' = IF after_interpret(result, mode) = "exited" THEN 70 ELSE exit_code
    /\ InterpreterUnchanged
    /\ UNCHANGED <<mode, scanner, stmts, resolver, locals, result, call>>

-----------------------------------------------------------------------------
(* Statements (interpreter.rs, impl stmt::Visitor<()> for Interpreter).     *)

\* What an action of the interpreter leaves alone besides what it names.
DriverUnchanging ==
    UNCHANGED <<pc, mode, scanner, stmts, resolver, locals, result, exit_code, call>>

Executing(k) == pc = "executing" /\ ctl.m = "exec" /\ ctl.stmt.k = k

Evaluating(k) == pc = "executing" /\ ctl.m = "eval" /\ ctl.expr.k = k

\* Ok(object) has come back to a frame f.
Returned(f) == pc = "executing" /\ ctl.m = "val" /\ Top.f = f

\* Ok(()) has come back to a frame f.
Finished(f) == pc = "executing" /\ ctl.m = "unit" /\ Top.f = f

visit_expr_stmt ==
    /\ Executing("ExprStmt")
    /\ stack' = Push([f |-> "expr_stmt"])
    /\ ctl' = Eval(ctl.stmt.expression)
    /\ UNCHANGED <<environment, envs, classes, instances, printed>>
    /\ DriverUnchanging

visit_expr_stmt_value ==
    /\ Returned("expr_stmt")
    /\ stack' = Rest
    /\ ctl' = Done
    /\ UNCHANGED <<environment, envs, classes, instances, printed>>
    /\ DriverUnchanging

visit_print_stmt ==
    /\ Executing("PrintStmt")
    /\ stack' = Push([f |-> "print_stmt"])
    /\ ctl' = Eval(ctl.stmt.expression)
    /\ UNCHANGED <<environment, envs, classes, instances, printed>>
    /\ DriverUnchanging

visit_print_stmt_value ==
    /\ Returned("print_stmt")
    /\ printed' = Append(printed, stringify(classes, instances, ctl.v))
    /\ stack' = Rest
    /\ ctl' = Done
    /\ UNCHANGED <<environment, envs, classes, instances>>
    /\ DriverUnchanging

visit_var_stmt ==
    /\ Executing("VarStmt")
    /\ IF ctl.stmt.initializer # None
       THEN /\ stack' = Push([f |-> "var_stmt", name |-> ctl.stmt.name])
            /\ ctl' = Eval(ctl.stmt.initializer.v)
            /\ UNCHANGED envs
       ELSE /\ envs' = Environment_define(envs, environment, ctl.stmt.name.lexeme, Nil)
            /\ ctl' = Done
            /\ UNCHANGED stack
    /\ UNCHANGED <<environment, classes, instances, printed>>
    /\ DriverUnchanging

visit_var_stmt_value ==
    /\ Returned("var_stmt")
    /\ envs' = Environment_define(envs, environment, Top.name.lexeme, ctl.v)
    /\ stack' = Rest
    /\ ctl' = Done
    /\ UNCHANGED <<environment, classes, instances, printed>>
    /\ DriverUnchanging

\* The frame of an execute_block(stmts, env) entered with self.environment =
\* previous.
BlockFrame(ss, previous, env) ==
    [f |-> "execute_block", stmts |-> ss, i |-> 0, previous |-> previous,
     environment |-> env]

\* visit_block_stmt: a new environment, and execute_block is entered.
visit_block_stmt ==
    /\ Executing("BlockStmt")
    /\ envs' = Append(envs, Environment_new(environment))
    /\ stack' = Push(BlockFrame(ctl.stmt.statements, environment, Len(envs) + 1))
    /\ environment' = Len(envs) + 1
    /\ ctl' = Done
    /\ UNCHANGED <<classes, instances, printed>>
    /\ DriverUnchanging

\* `for statement in stmts { self.execute(statement)?; }`
execute_block_next ==
    /\ Finished("execute_block")
    /\ Top.i < Len(Top.stmts)
    /\ stack' = Replace([Top EXCEPT !.i = @ + 1])
    /\ ctl' = Exec(Top.stmts[Top.i + 1])
    /\ UNCHANGED <<environment, envs, classes, instances, printed>>
    /\ DriverUnchanging

\* `let result = steps(); self.environment = previous; result`
execute_block_return ==
    /\ pc = "executing"
    /\ Top.f = "execute_block"
    /\ ctl.m = "err" \/ (ctl.m = "unit" /\ Top.i = Len(Top.stmts))
    /\ environment' = execute_block_exit(Top.previous, environment,
                          IF ctl.m = "err" THEN Err(ctl.e) ELSE Ok(Unit))
    /\ stack' = Rest
    /\ UNCHANGED <<ctl, envs, classes, instances, printed>>
    /\ DriverUnchanging

visit_if_stmt ==
    /\ Executing("IfStmt")
    /\ stack' = Push([f |-> "if_stmt", stmt |-> ctl.stmt])
    /\ ctl' = Eval(ctl.stmt.condition)
    /\ UNCHANGED <<environment, envs, classes, instances, printed>>
    /\ DriverUnchanging

visit_if_stmt_condition ==
    /\ Returned("if_stmt")
    /\ IF is_truthy(ctl.v)
       THEN /\ stack' = Replace([f |-> "if_branch"])
            /\ ctl' = Exec(Top.stmt.then_branch)
       ELSE IF Top.stmt.else_branch # None
            THEN /\ stack' = Replace([f |-> "if_branch"])
                 /\ ctl' = Exec(Top.stmt.else_branch.v)
            ELSE /\ stack' = Rest
                 /\ ctl' = Done
    /\ UNCHANGED <<environment, envs, classes, instances, printed>>
    /\ DriverUnchanging

visit_if_stmt_branch ==
    /\ Finished("if_branch")
    /\ stack' = Rest
    /\ ctl' = Done
    /\ UNCHANGED <<environment, envs, classes, instances, printed>>
    /\ DriverUnchanging

visit_while_stmt ==
    /\ Executing("WhileStmt")
    /\ stack' = Push([f |-> "while_condition", stmt |-> ctl.stmt])
    /\ ctl' = Eval(ctl.stmt.condition)
    /\ UNCHANGED <<environment, envs, classes, instances, printed>>
    /\ DriverUnchanging

visit_while_stmt_condition ==
    /\ Returned("while_condition")
    /\ IF is_truthy(ctl.v)
       THEN /\ stack' = Replace([f |-> "while_body", stmt |-> Top.stmt])
            /\ ctl' = Exec(Top.stmt.body)
       ELSE /\ stack' = Rest
            /\ ctl' = Done
    /\ UNCHANGED <<environment, envs, classes, instances, printed>>
    /\ DriverUnchanging

visit_while_stmt_body ==
    /\ Finished("while_body")
    /\ stack' = Replace([f |-> "while_condition", stmt |-> Top.stmt])
    /\ ctl' = Eval(Top.stmt.condition)
    /\ UNCHANGED <<environment, envs, classes, instances, printed>>
    /\ DriverUnchanging

visit_func_stmt ==
    /\ Executing("FunStmt")
    /\ envs' = Environment_define(envs, environment, ctl.stmt.name.lexeme,
                   Callable(UserDefined(ctl.stmt.name, ctl.stmt.params, ctl.stmt.body,
                                        environment, FALSE)))
    /\ ctl' = Done
    /\ UNCHANGED <<environment, stack, classes, instances, printed>>
    /\ DriverUnchanging

ReturnError(value) == Error("Return statement", Return(value))

visit_return_stmt ==
    /\ Executing("ReturnStmt")
    /\ IF ctl.stmt.value # None
       THEN /\ stack' = Push([f |-> "return_stmt"])
            /\ ctl' = Eval(ctl.stmt.value.v)
       ELSE /\ ctl' = Raise(ReturnError(Nil))
            /\ UNCHANGED stack
    /\ UNCHANGED <<environment, envs, classes, instances, printed>>
    /\ DriverUnchanging

visit_return_stmt_value ==
    /\ Returned("return_stmt")
    /\ stack' = Rest
    /\ ctl' = Raise(ReturnError(ctl.v))
    /\ UNCHANGED <<environment, envs, classes, instances, printed>>
    /\ DriverUnchanging

\* The loop `for method in methods` of visit_class_stmt: a later method of the
\* same name replaces an earlier one.
class_methods(methods, closure) ==
    [n \in {methods[i].name.lexeme : i \in DOMAIN methods} |->
        LET i == CHOOSE j \in DOMAIN methods :
                     /\ methods[j].name.lexeme = n
                     /\ \A l \in DOMAIN methods : methods[l].name.lexeme = n => l <= j
        IN UserDefined(methods[i].name, methods[i].params, methods[i].body,
                       closure, methods[i].name.lexeme = "init")]

\* visit_class_stmt from the point where the superclass is known (NoRef: the
\* class has none): the environment holding "super" is pushed, the methods
\* close over the current environment, the environment is popped, and the
\* class is defined.  Returns the heaps and the environment left behind.
define_class(h, cs, env, stmt, super_class_ref) ==
    LET h1 == IF super_class_ref # NoRef
              THEN Append(h, [enclosing |-> env,
                              values |-> MapPut(EmptyMap, "super", Class(super_class_ref))])
              ELSE h
        inside == IF super_class_ref # NoRef THEN Len(h) + 1 ELSE env
        previous == IF super_class_ref # NoRef THEN h1[inside].enclosing ELSE inside
        class == LoxClass_new(stmt.name.lexeme, class_methods(stmt.methods, inside),
                              super_class_ref)
    IN [heap |-> Environment_define(h1, previous, stmt.name.lexeme, Class(Len(cs) + 1)),
        classes |-> Append(cs, class),
        environment |-> previous]

visit_class_stmt ==
    /\ Executing("ClassStmt")
    /\ IF ctl.stmt.super_class # None
       THEN /\ stack' = Push([f |-> "class_stmt", stmt |-> ctl.stmt])
            /\ ctl' = Eval(ctl.stmt.super_class.v)
            /\ UNCHANGED <<environment, envs, classes>>
       ELSE LET c == define_class(envs, classes, environment, ctl.stmt, NoRef)
            IN /\ envs' = c.heap
               /\ classes' = c.classes
               /\ environment' = c.environment
               /\ ctl' = Done
               /\ UNCHANGED stack
    /\ UNCHANGED <<instances, printed>>
    /\ DriverUnchanging

visit_class_stmt_super ==
    /\ Returned("class_stmt")
    /\ stack' = Rest
    /\ IF ctl.v.t = "Class"
       THEN LET c == define_class(envs, classes, environment, Top.stmt, ctl.v.ref)
            IN /\ envs' = c.heap
               /\ classes' = c.classes
               /\ environment' = c.environment
               /\ ctl' = Done
       ELSE /\ ctl' = Raise(Error("Superclass must be a class.",
                                  RuntimeError(Top.stmt.name)))
            /\ UNCHANGED <<environment, envs, classes>>
    /\ UNCHANGED <<instances, printed>>
    /\ DriverUnchanging

-----------------------------------------------------------------------------
(* Expressions (interpreter.rs, impl expr::Visitor<Object> for Interpreter). *)

visit_literal ==
    /\ Evaluating("Literal")
    /\ ctl' = FromResult(visit_literal_expr(ctl.expr.value))
    /\ UNCHANGED <<stack, environment, envs, classes, instances, printed>>
    /\ DriverUnchanging

\* visit_grouping_expr hands on what evaluate(expression) returns.
visit_grouping_expr ==
    /\ Evaluating("Grouping")
    /\ ctl' = Eval(ctl.expr.expression)
    /\ UNCHANGED <<stack, environment, envs, classes, instances, printed>>
    /\ DriverUnchanging

\* visit_variable_expr and visit_this_expr: look_up_variable(name).
LookUp(name) ==
    LET r == look_up_variable(locals, envs, environment, name)
    IN /\ pc' = IF r = Panic THEN "panicked" ELSE pc
       /\ ctl' = IF r = Panic THEN ctl ELSE FromResult(r)
       /\ UNCHANGED <<stack, environment, envs, classes, instances, printed>>
       /\ UNCHANGED <<mode, scanner, stmts, resolver, locals, result, exit_code, call>>

visit_variable_expr ==
    /\ Evaluating("Variable")
    /\ LookUp(ctl.expr.name)

visit_this_expr ==
    /\ Evaluating("This")
    /\ LookUp(ctl.expr.keyword)

visit_unary_expr ==
    /\ Evaluating("Unary")
    /\ stack' = Push([f |-> "unary", operator |-> ctl.expr.operator])
    /\ ctl' = Eval(ctl.expr.right)
    /\ UNCHANGED <<environment, envs, classes, instances, printed>>
    /\ DriverUnchanging

visit_unary_expr_right ==
    /\ Returned("unary")
    /\ stack' = Rest
    /\ ctl' = FromResult(unary_expr_result(Top.operator, ctl.v))
    /\ UNCHANGED <<environment, envs, classes, instances, printed>>
    /\ DriverUnchanging

visit_binary_expr ==
    /\ Evaluating("Binary")
    /\ stack' = Push([f |-> "binary_left", expr |-> ctl.expr])
    /\ ctl' = Eval(ctl.expr.left)
    /\ UNCHANGED <<environment, envs, classes, instances, printed>>
    /\ DriverUnchanging

visit_binary_expr_left ==
    /\ Returned("binary_left")
    /\ stack' = Replace([f |-> "binary_right", expr |-> Top.expr, left |-> ctl.v])
    /\ ctl' = Eval(Top.expr.right)
    /\ UNCHANGED <<environment, envs, classes, instances, printed>>
    /\ DriverUnchanging

visit_binary_expr_right ==
    /\ Returned("binary_right")
    /\ stack' = Rest
    /\ ctl' = FromResult(binary_expr_result(Top.expr.operator, Top.left, ctl.v))
    /\ UNCHANGED <<environment, envs, classes, instances, printed>>
    /\ DriverUnchanging

visit_logic_expr ==
    /\ Evaluating("Logical")
    /\ stack' = Push([f |-> "logic", expr |-> ctl.expr])
    /\ ctl' = Eval(ctl.expr.left)
    /\ UNCHANGED <<environment, envs, classes, instances, printed>>
    /\ DriverUnchanging

\* The left operand is known: it is the result, or the right operand is
\* evaluated and handed on.
visit_logic_expr_left ==
    /\ Returned("logic")
    /\ stack' = Rest
    /\ ctl' = IF Top.expr.operator.token_type = "Or"
              THEN IF is_truthy(ctl.v) THEN ctl ELSE Eval(Top.expr.right)
              ELSE IF is_truthy(ctl.v) THEN Eval(Top.expr.right) ELSE ctl
    /\ UNCHANGED <<environment, envs, classes, instances, printed>>
    /\ DriverUnchanging

visit_assign_expr ==
    /\ Evaluating("Assign")
    /\ stack' = Push([f |-> "assign", name |-> ctl.expr.name])
    /\ ctl' = Eval(ctl.expr.value)
    /\ UNCHANGED <<environment, envs, classes, instances, printed>>
    /\ DriverUnchanging

visit_assign_expr_value ==
    /\ Returned("assign")
    /\ LET r == IF Top.name \in DOMAIN locals
                THEN Environment_assign_at(envs, environment, locals[Top.name],
                                           Top.name, ctl.v)
                ELSE Environment_assign(envs, environment, Top.name, ctl.v)
       IN IF r.res = Panic
          THEN /\ pc' = "panicked"
               /\ UNCHANGED <<stack, ctl, envs>>
          ELSE /\ stack' = Rest
               /\ envs' = r.heap
               /\ ctl' = IF r.res.tag = "Ok" THEN ctl ELSE Raise(r.res.e)
               /\ UNCHANGED pc
    /\ UNCHANGED <<environment, classes, instances, printed>>
    /\ UNCHANGED <<mode, scanner, stmts, resolver, locals, result, exit_code, call>>

visit_get_expr ==
    /\ Evaluating("Get")
    /\ stack' = Push([f |-> "get", name |-> ctl.expr.name])
    /\ ctl' = Eval(ctl.expr.object)
    /\ UNCHANGED <<environment, envs, classes, instances, printed>>
    /\ DriverUnchanging

visit_get_expr_object ==
    /\ Returned("get")
    /\ stack' = Rest
    /\ IF ctl.v.t = "Instance"
       THEN LET g == LoxInstance_get(envs, classes, instances, ctl.v.ref, Top.name.lexeme)
            IN /\ envs' = g.heap
               /\ ctl' = IF g.res # None THEN Val(g.res.v)
                         ELSE Raise(Error("Undefined property '" \o Top.name.lexeme \o "'.",
                                          RuntimeError(Top.name)))
       ELSE /\ ctl' = Raise(Error("Only instances have properties.",
                                  RuntimeError(Top.name)))
            /\ UNCHANGED envs
    /\ UNCHANGED <<environment, classes, instances, printed>>
    /\ DriverUnchanging

visit_set_expr ==
    /\ Evaluating("Set")
    /\ stack' = Push([f |-> "set_object", expr |-> ctl.expr])
    /\ ctl' = Eval(ctl.expr.object)
    /\ UNCHANGED <<environment, envs, classes, instances, printed>>
    /\ DriverUnchanging

visit_set_expr_object ==
    /\ Returned("set_object")
    /\ IF ctl.v.t = "Instance"
       THEN /\ stack' = Replace([f |-> "set_value", name |-> Top.expr.name,
                                 instance |-> ctl.v.ref])
            /\ ctl' = Eval(Top.expr.value)
       ELSE /\ stack' = Rest
            /\ ctl' = Raise(Error("Only instances have fields.",
                                  RuntimeError(Top.expr.name)))
    /\ UNCHANGED <<environment, envs, classes, instances, printed>>
    /\ DriverUnchanging

visit_set_expr_value ==
    /\ Returned("set_value")
    /\ instances' = LoxInstance_set(instances, Top.instance, Top.name.lexeme, ctl.v)
    /\ stack' = Rest
    /\ UNCHANGED <<ctl, environment, envs, classes, printed>>
    /\ DriverUnchanging

\* visit_super_expr: Ok(bound method), Err(undefined property) or Panic, and
\* the heap of environments after the bind.
super_expr_result(table, h, cs, env, expr) ==
    LET super_class == look_up_variable(table, h, env, expr.keyword)
        distance == IF expr.keyword \in DOMAIN table THEN table[expr.keyword] ELSE 0
        object == IF distance > 0
                  THEN Environment_get_at(h, env, distance - 1, "this")
                  ELSE Panic
    IN IF super_class = Panic THEN [heap |-> h, res |-> Panic]
       ELSE IF super_class.tag = "Err" THEN [heap |-> h, res |-> super_class]
       ELSE IF object = Panic \/ object = None \/ super_class.v.t # "Class"
            THEN [heap |-> h, res |-> Panic]
       ELSE LET method == LoxClass_get_method(cs, super_class.v.ref, expr.method.lexeme)
            IN IF method # None
               THEN LET b == Function_bind(h, method.v, object.v)
                    IN [heap |-> b.heap, res |-> Ok(Callable(b.function))]
               ELSE [heap |-> h,
                     res |-> Err(Error("Undefined property '" \o expr.method.lexeme \o "'.",
                                       RuntimeError(expr.method)))]

visit_super_expr ==
    /\ Evaluating("Super")
    /\ LET r == super_expr_result(locals, envs, classes, environment, ctl.expr)
       IN /\ pc' = IF r.res = Panic THEN "panicked" ELSE pc
          /\ ctl' = IF r.res = Panic THEN ctl ELSE FromResult(r.res)
          /\ envs' = r.heap
    /\ UNCHANGED <<stack, environment, classes, instances, printed>>
    /\ UNCHANGED <<mode, scanner, stmts, resolver, locals, result, exit_code, call>>

visit_call_expr ==
    /\ Evaluating("Call")
    /\ stack' = Push([f |-> "call_callee", expr |-> ctl.expr])
    /\ ctl' = Eval(ctl.expr.callee)
    /\ UNCHANGED <<environment, envs, classes, instances, printed>>
    /\ DriverUnchanging

arity_error(function, args, paren) ==
    Error("Expected " \o ToString(Function_arity(function)) \o " arguments but got "
              \o ToString(Len(args)) \o ".",
          RuntimeError(paren))

\* A plausible slip: the environment of a call encloses the globals.
Function_call_environment_global(function, args) ==
    [enclosing |-> globals,
     values |-> [n \in {function.params[i].lexeme : i \in DOMAIN function.params} |->
                    args[CHOOSE j \in DOMAIN function.params :
                             /\ function.params[j].lexeme = n
                             /\ \A l \in DOMAIN function.params :
                                    function.params[l].lexeme = n => l <= j]]]

\* Function::call: the new environment, enclosed by the closure, with the
\* parameters defined in order.
Function_call_environment(function, args) ==
    [enclosing |-> function.closure,
     values |-> [n \in {function.params[i].lexeme : i \in DOMAIN function.params} |->
                    args[CHOOSE j \in DOMAIN function.params :
                             /\ function.params[j].lexeme = n
                             /\ \A l \in DOMAIN function.params :
                                    function.params[l].lexeme = n => l <= j]]]

\* Function::call of a UserDefined up to the entry of execute_block, on the
\* heap h and under the frames stk.
Function_call(h, stk, env, function, args) ==
    [stack |-> stk \o <<[f |-> "function_call", function |-> function],
                        BlockFrame(function.body, env, Len(h) + 1)>>,
     envs |-> Append(h, Function_call_environment(function, args)),
     environment |-> Len(h) + 1,
     instances |-> instances,
     ctl |-> Done]

\* visit_call_expr once the callee and the arguments are known; t is what the
\* clock reads.  Returns what the call leaves of the interpreter's state.
call_dispatch(expr, callee, args, stk, t) ==
    LET same == [stack |-> stk, envs |-> envs, environment |-> environment,
                 instances |-> instances, ctl |-> ctl]
    IN IF callee.t = "Callable"
       THEN IF Function_arity(callee.f) # Len(args)
            THEN [same EXCEPT !.ctl = Raise(arity_error(callee.f, args, expr.paren))]
            ELSE IF callee.f.kind = "Native"
                 THEN [same EXCEPT !.ctl = Val(Number(NumFloat(t)))]
                 ELSE Function_call(envs, stk, environment, callee.f, args)
       ELSE IF callee.t = "Class"
       THEN LET instance == Instance(Len(instances) + 1)
                created == Append(instances, LoxInstance_new(callee.ref))
                initializer == LoxClass_get_method(classes, callee.ref, "init")
            IN IF initializer = None
               THEN [same EXCEPT !.instances = created, !.ctl = Val(instance)]
               ELSE IF Function_arity(initializer.v) # Len(args)
                    THEN [same EXCEPT !.instances = created,
                                      !.ctl = Raise(arity_error(initializer.v, args,
                                                                expr.paren))]
                    ELSE LET b == Function_bind(envs, initializer.v, instance)
                             c == Function_call(b.heap,
                                      Append(stk, [f |-> "class_call",
                                                   instance |-> instance]),
                                      environment, b.function, args)
                         IN [c EXCEPT !.instances = created]
       ELSE [same EXCEPT !.ctl = Raise(Error("Can only call functions and classes.",
                                             RuntimeError(expr.paren)))]

Dispatch(expr, callee, args) ==
    \E t \in ClockTimes :
        LET d == call_dispatch(expr, callee, args, Rest, t)
        IN /\ stack' = d.stack
           /\ envs' = d.envs
           /\ environment' = d.environment
           /\ instances' = d.instances
           /\ ctl' = d.ctl

\* A plausible slip: the arguments are evaluated from the last to the first.
next_argument_reversed(args, arguments) == Len(arguments) - Len(args)

\* `for arg in arguments`: the argument evaluated once args have been pushed.
next_argument(args, arguments) == Len(args) + 1

visit_call_expr_callee ==
    /\ Returned("call_callee")
    /\ IF Top.expr.arguments = <<>>
       THEN Dispatch(Top.expr, ctl.v, <<>>)
       ELSE /\ stack' = Replace([f |-> "call_arguments", expr |-> Top.expr,
                                 callee |-> ctl.v, args |-> <<>>])
            /\ ctl' = Eval(Top.expr.arguments[next_argument(<<>>, Top.expr.arguments)])
            /\ UNCHANGED <<environment, envs, instances>>
    /\ UNCHANGED <<classes, printed>>
    /\ DriverUnchanging

\* `for arg in arguments { args.push(self.evaluate(arg)?); }`
visit_call_expr_argument ==
    /\ Returned("call_arguments")
    /\ LET args == Append(Top.args, ctl.v)
       IN IF Len(args) < Len(Top.expr.arguments)
          THEN /\ stack' = Replace([Top EXCEPT !.args = args])
               /\ ctl' = Eval(Top.expr.arguments[next_argument(args, Top.expr.arguments)])
               /\ UNCHANGED <<environment, envs, instances>>
          ELSE Dispatch(Top.expr, Top.callee, args)
    /\ UNCHANGED <<classes, printed>>
    /\ DriverUnchanging

\* Function::call after execute_block has returned.
Function_call_return ==
    /\ pc = "executing"
    /\ Top.f = "function_call"
    /\ ctl.m \in {"unit", "err"}
    /\ stack' = Rest
    /\ ctl' = FromResult(Function_call_result(Top.function, envs,
                             IF ctl.m = "err" THEN Err(ctl.e) ELSE Ok(Unit)))
    /\ UNCHANGED <<environment, envs, classes, instances, printed>>
    /\ DriverUnchanging

\* `initializer.bind(instance.clone()).call(self, &args)?; Ok(instance)`
visit_call_expr_initialized ==
    /\ Returned("class_call")
    /\ stack' = Rest
    /\ ctl' = Val(Top.instance)
    /\ UNCHANGED <<environment, envs, classes, instances, printed>>
    /\ DriverUnchanging

\* The `?` of a frame that only hands an Err on to its caller.
Propagate ==
    /\ pc = "executing"
    /\ ctl.m = "err"
    /\ Top.f \notin {"interpret", "execute_block", "function_call"}
    /\ stack' = Rest
    /\ UNCHANGED <<ctl, environment, envs, classes, instances, printed>>
    /\ DriverUnchanging

Cores ==
    <<
    \* 1. static scope: a closure keeps the binding it resolved
    \*     var a = "global";
    \*     {
    \*       fun showA() { print a; }
    \*       showA();
    \*       var a = "block";
    \*       showA();
    \*     }
    <<VarStmt(Id("a", 1, 5), Some(Literal(LitString("global")))),
      BlockStmt(<<FunStmt(Id("showA", 3, 7), <<>>,
      <<PrintStmt(Variable(Id("a", 3, 23)))>>),
      ExprStmt(Call(Variable(Id("showA", 4, 3)), Token(")", "RightParen", 4,
      9), <<>>)), VarStmt(Id("a", 5, 7), Some(Literal(LitString("block")))),
      ExprStmt(Call(Variable(Id("showA", 6, 3)), Token(")", "RightParen", 6,
      9), <<>>))>>)>>,
    \* 2. closures: two counters from two calls
    \*     fun make() {
    \*       var i = 0;
    \*       fun inc() { i = i + 1; return i; }
    \*       return inc;
    \*     }
    \*     var c1 = make();
    \*     var c2 = make();
    \*     print c1(); print c1(); print c2();
    <<FunStmt(Id("make", 1, 5), <<>>, <<VarStmt(Id("i", 2, 7),
      Some(Literal(LitNumber(NumInteger(0))))), FunStmt(Id("inc", 3, 7), <<>>,
      <<ExprStmt(Assign(Id("i", 3, 15), Binary(Variable(Id("i", 3, 19)),
      Token("+", "Plus", 3, 21), Literal(LitNumber(NumInteger(1)))))),
      ReturnStmt(Token("return", "Return", 3, 26), Some(Variable(Id("i", 3,
      33))))>>), ReturnStmt(Token("return", "Return", 4, 3),
      Some(Variable(Id("inc", 4, 10))))>>), VarStmt(Id("c1", 6, 5),
      Some(Call(Variable(Id("make", 6, 10)), Token(")", "RightParen", 6, 15),
      <<>>))), VarStmt(Id("c2", 7, 5), Some(Call(Variable(Id("make", 7, 10)),
      Token(")", "RightParen", 7, 15), <<>>))),
      PrintStmt(Call(Variable(Id("c1", 8, 7)), Token(")", "RightParen", 8,
      10), <<>>)), PrintStmt(Call(Variable(Id("c1", 8, 19)), Token(")",
      "RightParen", 8, 22), <<>>)), PrintStmt(Call(Variable(Id("c2", 8, 31)),
      Token(")", "RightParen", 8, 34), <<>>))>>,
    \* 3. runtime error at top level
    \*     print "p3";
    \*     print -"a";
    \*     print "unreached";
    <<PrintStmt(Literal(LitString("p3"))), PrintStmt(Unary(Token("-", "Minus",
      2, 7), Literal(LitString("a")))),
      PrintStmt(Literal(LitString("unreached")))>>,
    \* 4. runtime error under if, while and a block in a function
    \*     fun f(x) {
    \*       if (x) { while (true) { print nil + 1; } }
    \*       print "unreached";
    \*     }
    \*     print "p4";
    \*     f(true);
    \*     print "unreached";
    <<FunStmt(Id("f", 1, 5), <<Id("x", 1, 7)>>, <<IfStmt(Variable(Id("x", 2,
      7)), BlockStmt(<<WhileStmt(Literal(LitBoolean(TRUE)),
      BlockStmt(<<PrintStmt(Binary(Literal(LitNil), Token("+", "Plus", 2, 37),
      Literal(LitNumber(NumInteger(1)))))>>))>>), None),
      PrintStmt(Literal(LitString("unreached")))>>),
      PrintStmt(Literal(LitString("p4"))), ExprStmt(Call(Variable(Id("f", 6,
      1)), Token(")", "RightParen", 6, 7), <<Literal(LitBoolean(TRUE))>>)),
      PrintStmt(Literal(LitString("unreached")))>>,
    \* 5. runtime error in a method
    \*     class A { m() { return this.missing; } }
    \*     print "p5";
    \*     print A().m();
    \*     print "unreached";
    <<ClassStmt(Id("A", 1, 7), None, <<FunStmt(Id("m", 1, 11), <<>>,
      <<ReturnStmt(Token("return", "Return", 1, 17),
      Some(Get(This(Token("this", "This", 1, 24)), Id("missing", 1,
      29))))>>)>>), PrintStmt(Literal(LitString("p5"))),
      PrintStmt(Call(Get(Call(Variable(Id("A", 3, 7)), Token(")",
      "RightParen", 3, 9), <<>>), Id("m", 3, 11)), Token(")", "RightParen", 3,
      13), <<>>)), PrintStmt(Literal(LitString("unreached")))>>,
    \* 6. runtime error in an initializer called through the class
    \*     class A {
    \*       init() { print "p6"; undefinedVar; print "unreached"; }
    \*     }
    \*     var a = A();
    \*     print "after";
    <<ClassStmt(Id("A", 1, 7), None, <<FunStmt(Id("init", 2, 3), <<>>,
      <<PrintStmt(Literal(LitString("p6"))),
      ExprStmt(Variable(Id("undefinedVar", 2, 24))),
      PrintStmt(Literal(LitString("unreached")))>>)>>), VarStmt(Id("a", 4, 5),
      Some(Call(Variable(Id("A", 4, 9)), Token(")", "RightParen", 4, 11),
      <<>>))), PrintStmt(Literal(LitString("after")))>>,
    \* 7. initializer: early return, and init called on an instance
    \*     class P {
    \*       init(x) { this.x = x; if (x > 1) return; this.y = x; }
    \*     }
    \*     var p = P(1);
    \*     var q = p.init(2);
    \*     print q.x; print p.x; print q.y;
    <<ClassStmt(Id("P", 1, 7), None, <<FunStmt(Id("init", 2, 3), <<Id("x", 2,
      8)>>, <<ExprStmt(SetExpr(This(Token("this", "This", 2, 13)), Id("x", 2,
      18), Variable(Id("x", 2, 22)))), IfStmt(Binary(Variable(Id("x", 2, 29)),
      Token(">", "Greater", 2, 31), Literal(LitNumber(NumInteger(1)))),
      ReturnStmt(Token("return", "Return", 2, 36), None), None),
      ExprStmt(SetExpr(This(Token("this", "This", 2, 44)), Id("y", 2, 49),
      Variable(Id("x", 2, 53))))>>)>>), VarStmt(Id("p", 4, 5),
      Some(Call(Variable(Id("P", 4, 9)), Token(")", "RightParen", 4, 12),
      <<Literal(LitNumber(NumInteger(1)))>>))), VarStmt(Id("q", 5, 5),
      Some(Call(Get(Variable(Id("p", 5, 9)), Id("init", 5, 11)), Token(")",
      "RightParen", 5, 17), <<Literal(LitNumber(NumInteger(2)))>>))),
      PrintStmt(Get(Variable(Id("q", 6, 7)), Id("x", 6, 9))),
      PrintStmt(Get(Variable(Id("p", 6, 18)), Id("x", 6, 20))),
      PrintStmt(Get(Variable(Id("q", 6, 29)), Id("y", 6, 31)))>>,
    \* 8. runtime error in a function called from an initializer
    \*     fun boom() { return 1 / 0; }
    \*     class B { init() { boom(); print "unreached"; } }
    \*     print "p8";
    \*     B();
    \*     print "after";
    <<FunStmt(Id("boom", 1, 5), <<>>, <<ReturnStmt(Token("return", "Return",
      1, 14), Some(Binary(Literal(LitNumber(NumInteger(1))), Token("/",
      "Slash", 1, 23), Literal(LitNumber(NumInteger(0))))))>>),
      ClassStmt(Id("B", 2, 7), None, <<FunStmt(Id("init", 2, 11), <<>>,
      <<ExprStmt(Call(Variable(Id("boom", 2, 20)), Token(")", "RightParen", 2,
      25), <<>>)), PrintStmt(Literal(LitString("unreached")))>>)>>),
      PrintStmt(Literal(LitString("p8"))), ExprStmt(Call(Variable(Id("B", 4,
      1)), Token(")", "RightParen", 4, 3), <<>>)),
      PrintStmt(Literal(LitString("after")))>>,
    \* 9. return: from nested blocks, without a value, and falling off the end
    \*     fun find(n) {
    \*       var i = 0;
    \*       while (true) {
    \*         { if (i == n) { return i; } }
    \*         i = i + 1;
    \*       }
    \*       print "unreached";
    \*     }
    \*     fun none() { return; print "unreached"; }
    \*     fun implicit() { }
    \*     print find(2); print none(); print implicit();
    <<FunStmt(Id("find", 1, 5), <<Id("n", 1, 10)>>, <<VarStmt(Id("i", 2, 7),
      Some(Literal(LitNumber(NumInteger(0))))),
      WhileStmt(Literal(LitBoolean(TRUE)),
      BlockStmt(<<BlockStmt(<<IfStmt(Binary(Variable(Id("i", 4, 11)),
      Token("==", "EqualEqual", 4, 13), Variable(Id("n", 4, 16))),
      BlockStmt(<<ReturnStmt(Token("return", "Return", 4, 21),
      Some(Variable(Id("i", 4, 28))))>>), None)>>), ExprStmt(Assign(Id("i", 5,
      5), Binary(Variable(Id("i", 5, 9)), Token("+", "Plus", 5, 11),
      Literal(LitNumber(NumInteger(1))))))>>)),
      PrintStmt(Literal(LitString("unreached")))>>), FunStmt(Id("none", 9, 5),
      <<>>, <<ReturnStmt(Token("return", "Return", 9, 14), None),
      PrintStmt(Literal(LitString("unreached")))>>), FunStmt(Id("implicit",
      10, 5), <<>>, <<>>), PrintStmt(Call(Variable(Id("find", 11, 7)),
      Token(")", "RightParen", 11, 13),
      <<Literal(LitNumber(NumInteger(2)))>>)),
      PrintStmt(Call(Variable(Id("none", 11, 22)), Token(")", "RightParen",
      11, 27), <<>>)), PrintStmt(Call(Variable(Id("implicit", 11, 36)),
      Token(")", "RightParen", 11, 45), <<>>))>>,
    \* 10. inheritance: super starts above the class of the method
    \*     class A { m() { return "A.m"; } n() { return "A.n"; } }
    \*     class B < A { m() { return "B.m"; } t() { return super.m(); } }
    \*     class C < B { m() { return "C.m"; } }
    \*     var c = C();
    \*     print c.t(); print c.m(); print c.n();
    <<ClassStmt(Id("A", 1, 7), None, <<FunStmt(Id("m", 1, 11), <<>>,
      <<ReturnStmt(Token("return", "Return", 1, 17),
      Some(Literal(LitString("A.m"))))>>), FunStmt(Id("n", 1, 33), <<>>,
      <<ReturnStmt(Token("return", "Return", 1, 39),
      Some(Literal(LitString("A.n"))))>>)>>), ClassStmt(Id("B", 2, 7),
      Some(Variable(Id("A", 2, 11))), <<FunStmt(Id("m", 2, 15), <<>>,
      <<ReturnStmt(Token("return", "Return", 2, 21),
      Some(Literal(LitString("B.m"))))>>), FunStmt(Id("t", 2, 37), <<>>,
      <<ReturnStmt(Token("return", "Return", 2, 43),
      Some(Call(Super(Token("super", "Super", 2, 50), Id("m", 2, 56)),
      Token(")", "RightParen", 2, 58), <<>>)))>>)>>), ClassStmt(Id("C", 3, 7),
      Some(Variable(Id("B", 3, 11))), <<FunStmt(Id("m", 3, 15), <<>>,
      <<ReturnStmt(Token("return", "Return", 3, 21),
      Some(Literal(LitString("C.m"))))>>)>>), VarStmt(Id("c", 4, 5),
      Some(Call(Variable(Id("C", 4, 9)), Token(")", "RightParen", 4, 11),
      <<>>))), PrintStmt(Call(Get(Variable(Id("c", 5, 7)), Id("t", 5, 9)),
      Token(")", "RightParen", 5, 11), <<>>)),
      PrintStmt(Call(Get(Variable(Id("c", 5, 20)), Id("m", 5, 22)), Token(")",
      "RightParen", 5, 24), <<>>)), PrintStmt(Call(Get(Variable(Id("c", 5,
      33)), Id("n", 5, 35)), Token(")", "RightParen", 5, 37), <<>>))>>,
    \* 11. inheritance: super finds a method two classes up, bound to this
    \*     class A { m() { return this.tag; } }
    \*     class B < A { }
    \*     class C < B {
    \*       init() { this.tag = "c"; }
    \*       t() { return super.m(); }
    \*     }
    \*     print C().t();
    <<ClassStmt(Id("A", 1, 7), None, <<FunStmt(Id("m", 1, 11), <<>>,
      <<ReturnStmt(Token("return", "Return", 1, 17),
      Some(Get(This(Token("this", "This", 1, 24)), Id("tag", 1, 29))))>>)>>),
      ClassStmt(Id("B", 2, 7), Some(Variable(Id("A", 2, 11))), <<>>),
      ClassStmt(Id("C", 3, 7), Some(Variable(Id("B", 3, 11))),
      <<FunStmt(Id("init", 4, 3), <<>>, <<ExprStmt(SetExpr(This(Token("this",
      "This", 4, 12)), Id("tag", 4, 17), Literal(LitString("c"))))>>),
      FunStmt(Id("t", 5, 3), <<>>, <<ReturnStmt(Token("return", "Return", 5,
      9), Some(Call(Super(Token("super", "Super", 5, 16), Id("m", 5, 22)),
      Token(")", "RightParen", 5, 24), <<>>)))>>)>>),
      PrintStmt(Call(Get(Call(Variable(Id("C", 7, 7)), Token(")",
      "RightParen", 7, 9), <<>>), Id("t", 7, 11)), Token(")", "RightParen", 7,
      13), <<>>))>>,
    \* 12. inherited initializer and its arity
    \*     class A { init(x) { this.x = x; } }
    \*     class B < A { }
    \*     print B(7).x;
    \*     B();
    \*     print "unreached";
    <<ClassStmt(Id("A", 1, 7), None, <<FunStmt(Id("init", 1, 11), <<Id("x", 1,
      16)>>, <<ExprStmt(SetExpr(This(Token("this", "This", 1, 21)), Id("x", 1,
      26), Variable(Id("x", 1, 30))))>>)>>), ClassStmt(Id("B", 2, 7),
      Some(Variable(Id("A", 2, 11))), <<>>),
      PrintStmt(Get(Call(Variable(Id("B", 3, 7)), Token(")", "RightParen", 3,
      10), <<Literal(LitNumber(NumInteger(7)))>>), Id("x", 3, 12))),
      ExprStmt(Call(Variable(Id("B", 4, 1)), Token(")", "RightParen", 4, 3),
      <<>>)), PrintStmt(Literal(LitString("unreached")))>>,
    \* 13. calling what is not callable
    \*     print "p13";
    \*     "s"();
    <<PrintStmt(Literal(LitString("p13"))),
      ExprStmt(Call(Literal(LitString("s")), Token(")", "RightParen", 2, 5),
      <<>>))>>,
    \* 14. property of what is not an instance
    \*     var x = 1;
    \*     print "p14";
    \*     x.f;
    <<VarStmt(Id("x", 1, 5), Some(Literal(LitNumber(NumInteger(1))))),
      PrintStmt(Literal(LitString("p14"))), ExprStmt(Get(Variable(Id("x", 3,
      1)), Id("f", 3, 3)))>>,
    \* 15. field of what is not an instance
    \*     var x = 1;
    \*     print "p15";
    \*     x.f = 2;
    <<VarStmt(Id("x", 1, 5), Some(Literal(LitNumber(NumInteger(1))))),
      PrintStmt(Literal(LitString("p15"))), ExprStmt(SetExpr(Variable(Id("x",
      3, 1)), Id("f", 3, 3), Literal(LitNumber(NumInteger(2)))))>>,
    \* 16. superclass that is not a class
    \*     var N = 1;
    \*     print "p16";
    \*     class A < N { }
    \*     print "unreached";
    <<VarStmt(Id("N", 1, 5), Some(Literal(LitNumber(NumInteger(1))))),
      PrintStmt(Literal(LitString("p16"))), ClassStmt(Id("A", 3, 7),
      Some(Variable(Id("N", 3, 11))), <<>>),
      PrintStmt(Literal(LitString("unreached")))>>,
    \* 17. assignment to an undefined variable
    \*     print "p17";
    \*     u = 1;
    \*     print "unreached";
    <<PrintStmt(Literal(LitString("p17"))), ExprStmt(Assign(Id("u", 2, 1),
      Literal(LitNumber(NumInteger(1))))),
      PrintStmt(Literal(LitString("unreached")))>>,
    \* 18. wrong number of arguments
    \*     fun f(a, b) { }
    \*     print "p18";
    \*     f(1);
    <<FunStmt(Id("f", 1, 5), <<Id("a", 1, 7), Id("b", 1, 10)>>, <<>>),
      PrintStmt(Literal(LitString("p18"))), ExprStmt(Call(Variable(Id("f", 3,
      1)), Token(")", "RightParen", 3, 4),
      <<Literal(LitNumber(NumInteger(1)))>>))>>,
    \* 19. undefined variable and undefined super method
    \*     class A { }
    \*     class B < A { t() { return super.m; } }
    \*     print "p19";
    \*     B().t();
    <<ClassStmt(Id("A", 1, 7), None, <<>>), ClassStmt(Id("B", 2, 7),
      Some(Variable(Id("A", 2, 11))), <<FunStmt(Id("t", 2, 15), <<>>,
      <<ReturnStmt(Token("return", "Return", 2, 21), Some(Super(Token("super",
      "Super", 2, 28), Id("m", 2, 34))))>>)>>),
      PrintStmt(Literal(LitString("p19"))),
      ExprStmt(Call(Get(Call(Variable(Id("B", 4, 1)), Token(")", "RightParen",
      4, 3), <<>>), Id("t", 4, 5)), Token(")", "RightParen", 4, 7), <<>>))>>,
    \* 20. loops, branches, logic and unary operators
    \*     var i = 0;
    \*     while (i < 2) {
    \*       i = i + 1;
    \*       if (i == 1) print "one"; else print "other";
    \*     }
    \*     print nil or "d"; print 1 and (2); print false and 1; print true or 1;
    \*     print !nil; print -(3); print 7 - 2 * 3;
    \*     if (false) print "unreached";
    \*     print clock() >= 1;
    <<VarStmt(Id("i", 1, 5), Some(Literal(LitNumber(NumInteger(0))))),
      WhileStmt(Binary(Variable(Id("i", 2, 8)), Token("<", "Less", 2, 10),
      Literal(LitNumber(NumInteger(2)))), BlockStmt(<<ExprStmt(Assign(Id("i",
      3, 3), Binary(Variable(Id("i", 3, 7)), Token("+", "Plus", 3, 9),
      Literal(LitNumber(NumInteger(1)))))), IfStmt(Binary(Variable(Id("i", 4,
      7)), Token("==", "EqualEqual", 4, 9),
      Literal(LitNumber(NumInteger(1)))),
      PrintStmt(Literal(LitString("one"))),
      Some(PrintStmt(Literal(LitString("other")))))>>)),
      PrintStmt(Logical(Literal(LitNil), Token("or", "Or", 6, 11),
      Literal(LitString("d")))),
      PrintStmt(Logical(Literal(LitNumber(NumInteger(1))), Token("and", "And",
      6, 27), Grouping(Literal(LitNumber(NumInteger(2)))))),
      PrintStmt(Logical(Literal(LitBoolean(FALSE)), Token("and", "And", 6,
      48), Literal(LitNumber(NumInteger(1))))),
      PrintStmt(Logical(Literal(LitBoolean(TRUE)), Token("or", "Or", 6, 66),
      Literal(LitNumber(NumInteger(1))))), PrintStmt(Unary(Token("!", "Bang",
      7, 7), Literal(LitNil))), PrintStmt(Unary(Token("-", "Minus", 7, 19),
      Grouping(Literal(LitNumber(NumInteger(3)))))),
      PrintStmt(Binary(Literal(LitNumber(NumInteger(7))), Token("-", "Minus",
      7, 33), Binary(Literal(LitNumber(NumInteger(2))), Token("*", "Star", 7,
      37), Literal(LitNumber(NumInteger(3)))))),
      IfStmt(Literal(LitBoolean(FALSE)),
      PrintStmt(Literal(LitString("unreached"))), None),
      PrintStmt(Binary(Call(Variable(Id("clock", 9, 7)), Token(")",
      "RightParen", 9, 13), <<>>), Token(">=", "GreaterEqual", 9, 15),
      Literal(LitNumber(NumInteger(1)))))>>,
    \* 21. fields, bound methods and how values print
    \*     class K { get() { return this.v; } }
    \*     var k = K();
    \*     k.v = 3;
    \*     var g = k.get;
    \*     print g(); print k; print K; print g; print clock; print nil; print true;
    <<ClassStmt(Id("K", 1, 7), None, <<FunStmt(Id("get", 1, 11), <<>>,
      <<ReturnStmt(Token("return", "Return", 1, 19),
      Some(Get(This(Token("this", "This", 1, 26)), Id("v", 1, 31))))>>)>>),
      VarStmt(Id("k", 2, 5), Some(Call(Variable(Id("K", 2, 9)), Token(")",
      "RightParen", 2, 11), <<>>))), ExprStmt(SetExpr(Variable(Id("k", 3, 1)),
      Id("v", 3, 3), Literal(LitNumber(NumInteger(3))))), VarStmt(Id("g", 4,
      5), Some(Get(Variable(Id("k", 4, 9)), Id("get", 4, 11)))),
      PrintStmt(Call(Variable(Id("g", 5, 7)), Token(")", "RightParen", 5, 9),
      <<>>)), PrintStmt(Variable(Id("k", 5, 18))), PrintStmt(Variable(Id("K",
      5, 27))), PrintStmt(Variable(Id("g", 5, 36))),
      PrintStmt(Variable(Id("clock", 5, 45))), PrintStmt(Literal(LitNil)),
      PrintStmt(Literal(LitBoolean(TRUE)))>>,
    \* 22. a function declared inside an initializer returns normally
    \*     class T {
    \*       init() { fun h() { return 5; } this.v = h(); }
    \*     }
    \*     print T().v;
    <<ClassStmt(Id("T", 1, 7), None, <<FunStmt(Id("init", 2, 3), <<>>,
      <<FunStmt(Id("h", 2, 16), <<>>, <<ReturnStmt(Token("return", "Return",
      2, 22), Some(Literal(LitNumber(NumInteger(5)))))>>),
      ExprStmt(SetExpr(This(Token("this", "This", 2, 34)), Id("v", 2, 39),
      Call(Variable(Id("h", 2, 43)), Token(")", "RightParen", 2, 45),
      <<>>)))>>)>>), PrintStmt(Get(Call(Variable(Id("T", 4, 7)), Token(")",
      "RightParen", 4, 9), <<>>), Id("v", 4, 11)))>>,
    \* 23. an assignment inside the initializer of the variable it names
    \*     var a = 0;
    \*     {
    \*       var a = (a = 1);
    \*       print a;
    \*     }
    \*     print a;
    <<VarStmt(Id("a", 1, 5), Some(Literal(LitNumber(NumInteger(0))))),
      BlockStmt(<<VarStmt(Id("a", 3, 7), Some(Grouping(Assign(Id("a", 3, 12),
      Literal(LitNumber(NumInteger(1))))))), PrintStmt(Variable(Id("a", 4,
      9)))>>), PrintStmt(Variable(Id("a", 6, 7)))>>,
    \* 24. the empty program
    \*     
    <<>>,
    \* 25. static error: a local read in its own initializer
    \*     print "unreached";
    \*     { var a = 1; { var a = a; } }
    <<PrintStmt(Literal(LitString("unreached"))), BlockStmt(<<VarStmt(Id("a",
      2, 7), Some(Literal(LitNumber(NumInteger(1))))),
      BlockStmt(<<VarStmt(Id("a", 2, 20), Some(Variable(Id("a", 2,
      24))))>>)>>)>>,
    \* 26. static error: return at top level
    \*     print "unreached";
    \*     return 1;
    <<PrintStmt(Literal(LitString("unreached"))), ReturnStmt(Token("return",
      "Return", 2, 1), Some(Literal(LitNumber(NumInteger(1)))))>>,
    \* 27. static error: this outside a class
    \*     print "unreached";
    \*     print this;
    <<PrintStmt(Literal(LitString("unreached"))), PrintStmt(This(Token("this",
      "This", 2, 7)))>>,
    \* 28. static error: a class inheriting from itself
    \*     print "unreached";
    \*     class A < A { }
    <<PrintStmt(Literal(LitString("unreached"))), ClassStmt(Id("A", 2, 7),
      Some(Variable(Id("A", 2, 11))), <<>>)>>,
    \* 29. static error: a name declared twice in a block
    \*     print "unreached";
    \*     { var a; var a; }
    <<PrintStmt(Literal(LitString("unreached"))), BlockStmt(<<VarStmt(Id("a",
      2, 7), None), VarStmt(Id("a", 2, 14), None)>>)>>,
    \* 30. static error: super in a class without superclass
    \*     print "unreached";
    \*     class A { m() { super.m(); } }
    <<PrintStmt(Literal(LitString("unreached"))), ClassStmt(Id("A", 2, 7),
      None, <<FunStmt(Id("m", 2, 11), <<>>,
      <<ExprStmt(Call(Super(Token("super", "Super", 2, 17), Id("m", 2, 23)),
      Token(")", "RightParen", 2, 25), <<>>))>>)>>)>>,
    \* 31. static error: a value returned from an initializer
    \*     print "unreached";
    \*     class A { init() { return 1; } }
    <<PrintStmt(Literal(LitString("unreached"))), ClassStmt(Id("A", 2, 7),
      None, <<FunStmt(Id("init", 2, 11), <<>>, <<ReturnStmt(Token("return",
      "Return", 2, 20), Some(Literal(LitNumber(NumInteger(1)))))>>)>>)>>,
    \* 32. calls: a class without init takes any arguments; clock takes none
    \*     class E {}
    \*     var e = E(1, 2);
    \*     var f = E();
    \*     e.tag = "e";
    \*     f.tag = "f";
    \*     print e.tag; print f.tag;
    \*     print clock(1);
    <<ClassStmt(Id("E", 1, 7), None, <<>>), VarStmt(Id("e", 2, 5),
      Some(Call(Variable(Id("E", 2, 9)), Token(")", "RightParen", 2, 15),
      <<Literal(LitNumber(NumInteger(1))),
      Literal(LitNumber(NumInteger(2)))>>))), VarStmt(Id("f", 3, 5),
      Some(Call(Variable(Id("E", 3, 9)), Token(")", "RightParen", 3, 11),
      <<>>))), ExprStmt(SetExpr(Variable(Id("e", 4, 1)), Id("tag", 4, 3),
      Literal(LitString("e")))), ExprStmt(SetExpr(Variable(Id("f", 5, 1)),
      Id("tag", 5, 3), Literal(LitString("f")))),
      PrintStmt(Get(Variable(Id("e", 6, 7)), Id("tag", 6, 9))),
      PrintStmt(Get(Variable(Id("f", 6, 20)), Id("tag", 6, 22))),
      PrintStmt(Call(Variable(Id("clock", 7, 7)), Token(")", "RightParen", 7,
      14), <<Literal(LitNumber(NumInteger(1)))>>))>>,
    \* 33. calls: init runs once on the new instance; arity is checked before the body
    \*     class K { init(a) { print "init"; this.a = a; } }
    \*     var k = K(3);
    \*     print k.a;
    \*     fun g(a) { print "body"; }
    \*     g();
    <<ClassStmt(Id("K", 1, 7), None, <<FunStmt(Id("init", 1, 11), <<Id("a", 1,
      16)>>, <<PrintStmt(Literal(LitString("init"))),
      ExprStmt(SetExpr(This(Token("this", "This", 1, 35)), Id("a", 1, 40),
      Variable(Id("a", 1, 44))))>>)>>), VarStmt(Id("k", 2, 5),
      Some(Call(Variable(Id("K", 2, 9)), Token(")", "RightParen", 2, 12),
      <<Literal(LitNumber(NumInteger(3)))>>))), PrintStmt(Get(Variable(Id("k",
      3, 7)), Id("a", 3, 9))), FunStmt(Id("g", 4, 5), <<Id("a", 4, 7)>>,
      <<PrintStmt(Literal(LitString("body")))>>),
      ExprStmt(Call(Variable(Id("g", 5, 1)), Token(")", "RightParen", 5, 3),
      <<>>))>>,
    \* 34. order: callee, then arguments left to right, then the callee check
    \*     fun t(n) { print n; return n; }
    \*     fun add(a, b) { return a + b; }
    \*     print add(t(1), t(2));
    \*     class O {}
    \*     fun mk(n) { print n; return O(); }
    \*     mk("obj").f = t("val");
    \*     t("callee")(t("arg1"), t("arg2"));
    <<FunStmt(Id("t", 1, 5), <<Id("n", 1, 7)>>, <<PrintStmt(Variable(Id("n",
      1, 18))), ReturnStmt(Token("return", "Return", 1, 21),
      Some(Variable(Id("n", 1, 28))))>>), FunStmt(Id("add", 2, 5), <<Id("a",
      2, 9), Id("b", 2, 12)>>, <<ReturnStmt(Token("return", "Return", 2, 17),
      Some(Binary(Variable(Id("a", 2, 24)), Token("+", "Plus", 2, 26),
      Variable(Id("b", 2, 28)))))>>), PrintStmt(Call(Variable(Id("add", 3,
      7)), Token(")", "RightParen", 3, 21), <<Call(Variable(Id("t", 3, 11)),
      Token(")", "RightParen", 3, 14), <<Literal(LitNumber(NumInteger(1)))>>),
      Call(Variable(Id("t", 3, 17)), Token(")", "RightParen", 3, 20),
      <<Literal(LitNumber(NumInteger(2)))>>)>>)), ClassStmt(Id("O", 4, 7),
      None, <<>>), FunStmt(Id("mk", 5, 5), <<Id("n", 5, 8)>>,
      <<PrintStmt(Variable(Id("n", 5, 19))), ReturnStmt(Token("return",
      "Return", 5, 22), Some(Call(Variable(Id("O", 5, 29)), Token(")",
      "RightParen", 5, 31), <<>>)))>>),
      ExprStmt(SetExpr(Call(Variable(Id("mk", 6, 1)), Token(")", "RightParen",
      6, 9), <<Literal(LitString("obj"))>>), Id("f", 6, 11),
      Call(Variable(Id("t", 6, 15)), Token(")", "RightParen", 6, 22),
      <<Literal(LitString("val"))>>))), ExprStmt(Call(Call(Variable(Id("t", 7,
      1)), Token(")", "RightParen", 7, 11), <<Literal(LitString("callee"))>>),
      Token(")", "RightParen", 7, 33), <<Call(Variable(Id("t", 7, 13)),
      Token(")", "RightParen", 7, 21), <<Literal(LitString("arg1"))>>),
      Call(Variable(Id("t", 7, 24)), Token(")", "RightParen", 7, 32),
      <<Literal(LitString("arg2"))>>)>>))>>,
    \* 35. order: the arguments are evaluated before the arity check
    \*     fun t(n) { print n; return n; }
    \*     fun add(a, b) { return a + b; }
    \*     add(t("only"));
    <<FunStmt(Id("t", 1, 5), <<Id("n", 1, 7)>>, <<PrintStmt(Variable(Id("n",
      1, 18))), ReturnStmt(Token("return", "Return", 1, 21),
      Some(Variable(Id("n", 1, 28))))>>), FunStmt(Id("add", 2, 5), <<Id("a",
      2, 9), Id("b", 2, 12)>>, <<ReturnStmt(Token("return", "Return", 2, 17),
      Some(Binary(Variable(Id("a", 2, 24)), Token("+", "Plus", 2, 26),
      Variable(Id("b", 2, 28)))))>>), ExprStmt(Call(Variable(Id("add", 3, 1)),
      Token(")", "RightParen", 3, 14), <<Call(Variable(Id("t", 3, 5)),
      Token(")", "RightParen", 3, 13), <<Literal(LitString("only"))>>)>>))>>,
    \* 36. order: the value of a field assignment is not evaluated for a non-instance
    \*     fun t(n) { print n; return n; }
    \*     t("obj").f = t("val");
    <<FunStmt(Id("t", 1, 5), <<Id("n", 1, 7)>>, <<PrintStmt(Variable(Id("n",
      1, 18))), ReturnStmt(Token("return", "Return", 1, 21),
      Some(Variable(Id("n", 1, 28))))>>),
      ExprStmt(SetExpr(Call(Variable(Id("t", 2, 1)), Token(")", "RightParen",
      2, 8), <<Literal(LitString("obj"))>>), Id("f", 2, 10),
      Call(Variable(Id("t", 2, 14)), Token(")", "RightParen", 2, 21),
      <<Literal(LitString("val"))>>)))>>,
    \* 37. logic: short circuit, and the operand itself is the result
    \*     fun f() { print "f"; return "r"; }
    \*     print false and f();
    \*     print true or f();
    \*     print nil or f();
    \*     print 1 and f();
    \*     print 0 and "zero";
    \*     print "" or "empty";
    \*     print nil and 1;
    \*     print false or nil;
    <<FunStmt(Id("f", 1, 5), <<>>, <<PrintStmt(Literal(LitString("f"))),
      ReturnStmt(Token("return", "Return", 1, 22),
      Some(Literal(LitString("r"))))>>),
      PrintStmt(Logical(Literal(LitBoolean(FALSE)), Token("and", "And", 2,
      13), Call(Variable(Id("f", 2, 17)), Token(")", "RightParen", 2, 19),
      <<>>))), PrintStmt(Logical(Literal(LitBoolean(TRUE)), Token("or", "Or",
      3, 12), Call(Variable(Id("f", 3, 15)), Token(")", "RightParen", 3, 17),
      <<>>))), PrintStmt(Logical(Literal(LitNil), Token("or", "Or", 4, 11),
      Call(Variable(Id("f", 4, 14)), Token(")", "RightParen", 4, 16), <<>>))),
      PrintStmt(Logical(Literal(LitNumber(NumInteger(1))), Token("and", "And",
      5, 9), Call(Variable(Id("f", 5, 13)), Token(")", "RightParen", 5, 15),
      <<>>))), PrintStmt(Logical(Literal(LitNumber(NumInteger(0))),
      Token("and", "And", 6, 9), Literal(LitString("zero")))),
      PrintStmt(Logical(Literal(LitString("")), Token("or", "Or", 7, 10),
      Literal(LitString("empty")))), PrintStmt(Logical(Literal(LitNil),
      Token("and", "And", 8, 11), Literal(LitNumber(NumInteger(1))))),
      PrintStmt(Logical(Literal(LitBoolean(FALSE)), Token("or", "Or", 9, 13),
      Literal(LitNil)))>>,
    \* 38. numbers: equality, promotion, quotients
    \*     print 1 == 1.0;
    \*     print 1 != 1.0;
    \*     print 7 / 2;
    \*     print 7 / 2.0;
    \*     print 0.5 + 1;
    \*     print 1 + 2 * 3;
    \*     print "a" < "b";
    \*     print 1 / 0.0;
    \*     print 1 / 0;
    <<PrintStmt(Binary(Literal(LitNumber(NumInteger(1))), Token("==",
      "EqualEqual", 1, 9), Literal(LitNumber(Ratio(1, 1))))),
      PrintStmt(Binary(Literal(LitNumber(NumInteger(1))), Token("!=",
      "BangEqual", 2, 9), Literal(LitNumber(Ratio(1, 1))))),
      PrintStmt(Binary(Literal(LitNumber(NumInteger(7))), Token("/", "Slash",
      3, 9), Literal(LitNumber(NumInteger(2))))),
      PrintStmt(Binary(Literal(LitNumber(NumInteger(7))), Token("/", "Slash",
      4, 9), Literal(LitNumber(Ratio(2, 1))))),
      PrintStmt(Binary(Literal(LitNumber(Ratio(1, 2))), Token("+", "Plus", 5,
      11), Literal(LitNumber(NumInteger(1))))),
      PrintStmt(Binary(Literal(LitNumber(NumInteger(1))), Token("+", "Plus",
      6, 9), Binary(Literal(LitNumber(NumInteger(2))), Token("*", "Star", 6,
      13), Literal(LitNumber(NumInteger(3)))))),
      PrintStmt(Binary(Literal(LitString("a")), Token("<", "Less", 7, 11),
      Literal(LitString("b")))),
      PrintStmt(Binary(Literal(LitNumber(NumInteger(1))), Token("/", "Slash",
      8, 9), Literal(LitNumber(Ratio(0, 1))))),
      PrintStmt(Binary(Literal(LitNumber(NumInteger(1))), Token("/", "Slash",
      9, 9), Literal(LitNumber(NumInteger(0)))))>>,
    \* 39. for: the loop variable is gone after the loop
    \*     var n = 0;
    \*     for (var i = 0; i < 2; i = i + 1) print i;
    \*     for (; n < 2;) n = n + 1;
    \*     for (n = 5; n < 7; n = n + 1) { print n; }
    \*     print i;
    <<VarStmt(Id("n", 1, 5), Some(Literal(LitNumber(NumInteger(0))))),
      BlockStmt(<<VarStmt(Id("i", 2, 10),
      Some(Literal(LitNumber(NumInteger(0))))),
      WhileStmt(Binary(Variable(Id("i", 2, 17)), Token("<", "Less", 2, 19),
      Literal(LitNumber(NumInteger(2)))),
      BlockStmt(<<PrintStmt(Variable(Id("i", 2, 41))), ExprStmt(Assign(Id("i",
      2, 24), Binary(Variable(Id("i", 2, 28)), Token("+", "Plus", 2, 30),
      Literal(LitNumber(NumInteger(1))))))>>))>>),
      WhileStmt(Binary(Variable(Id("n", 3, 8)), Token("<", "Less", 3, 10),
      Literal(LitNumber(NumInteger(2)))), ExprStmt(Assign(Id("n", 3, 16),
      Binary(Variable(Id("n", 3, 20)), Token("+", "Plus", 3, 22),
      Literal(LitNumber(NumInteger(1))))))),
      BlockStmt(<<ExprStmt(Assign(Id("n", 4, 6),
      Literal(LitNumber(NumInteger(5))))), WhileStmt(Binary(Variable(Id("n",
      4, 13)), Token("<", "Less", 4, 15), Literal(LitNumber(NumInteger(7)))),
      BlockStmt(<<BlockStmt(<<PrintStmt(Variable(Id("n", 4, 39)))>>),
      ExprStmt(Assign(Id("n", 4, 20), Binary(Variable(Id("n", 4, 24)),
      Token("+", "Plus", 4, 26), Literal(LitNumber(NumInteger(1))))))>>))>>),
      PrintStmt(Variable(Id("i", 5, 7)))>>
    >>

\* Parser::parse has returned: Err, or the statements of a program.
Parse ==
    /\ pc = "parse"
    /\ \E i \in 0..Len(Cores), d \in 0..MaxNest :
           LET parsed == IF i = 0 THEN Err(ParseError) ELSE Ok(Wrap(Cores[i], d))
           IN /\ stmts' = parsed
              /\ pc' = after_parse(parsed, mode)
              /\ exit_code' = IF after_parse(parsed, mode) = "exited" THEN 65
                              ELSE exit_code
    /\ InterpreterUnchanged
    /\ UNCHANGED <<mode, scanner, resolver, locals, result, call>>

\* A fresh Loxer (Loxer::new), about to run one source text.
Init ==
    /\ pc = "scan"
    /\ mode \in {"FILE", "PROMPT"}
    /\ scanner = NotRun
    /\ stmts = NotRun
    /\ resolver = NotRun
    /\ result = NotRun
    /\ envs = Interpreter_new_envs
    /\ environment = globals
    /\ locals = EmptyMap
    /\ classes = <<>>
    /\ instances = <<>>
    /\ ctl = Idle
    /\ stack = <<>>
    /\ printed = <<>>
    /\ exit_code = "NoExit"
    /\ call = NoCall

Next ==
    \/ Scan \/ Parse \/ Resolve \/ interpret \/ interpret_next \/ interpret_return
    \/ run_return
    \/ visit_expr_stmt \/ visit_expr_stmt_value
    \/ visit_print_stmt \/ visit_print_stmt_value
    \/ visit_var_stmt \/ visit_var_stmt_value
    \/ visit_block_stmt \/ execute_block_next \/ execute_block_return
    \/ visit_if_stmt \/ visit_if_stmt_condition \/ visit_if_stmt_branch
    \/ visit_while_stmt \/ visit_while_stmt_condition \/ visit_while_stmt_body
    \/ visit_func_stmt
    \/ visit_return_stmt \/ visit_return_stmt_value
    \/ visit_class_stmt \/ visit_class_stmt_super
    \/ visit_literal \/ visit_grouping_expr
    \/ visit_variable_expr \/ visit_this_expr
    \/ visit_unary_expr \/ visit_unary_expr_right
    \/ visit_binary_expr \/ visit_binary_expr_left \/ visit_binary_expr_right
    \/ visit_logic_expr \/ visit_logic_expr_left
    \/ visit_assign_expr \/ visit_assign_expr_value
    \/ visit_get_expr \/ visit_get_expr_object
    \/ visit_set_expr \/ visit_set_expr_object \/ visit_set_expr_value
    \/ visit_super_expr
    \/ visit_call_expr \/ visit_call_expr_callee \/ visit_call_expr_argument
    \/ Function_call_return \/ visit_call_expr_initialized
    \/ Propagate

Spec == Init /\ [][Next]_vars

-----------------------------------------------------------------------------
(* Properties of the driver and of the interpreter.                         *)

\* The interpreter has not been touched since Interpreter::new.
NothingExecuted ==
    /\ stack = <<>>
    /\ ctl = Idle
    /\ result = NotRun
    /\ printed = <<>>
    /\ envs = Interpreter_new_envs
    /\ environment = globals
    /\ classes = <<>>
    /\ instances = <<>>

\* C1: the phases of Loxer::run are gated in order.  The parser has run only
\* if the scanner recorded no error, the resolver only if parsing returned Ok,
\* and Interpreter::interpret is entered only if the resolver left has_error
\* unset; so after a scan, parse or static error no statement is executed:
\* the interpreter stays as Interpreter::new left it.
C1_PhasesGated ==
    /\ stmts # NotRun => (scanner # NotRun /\ ~scanner.had_error)
    /\ resolver # NotRun => stmts.tag = "Ok"
    /\ ~NothingExecuted => (resolver # NotRun /\ ~resolver.has_error)
    /\ pc \in {"executing", "interpreted"} => (resolver # NotRun /\ ~resolver.has_error)
    /\ ((scanner # NotRun /\ scanner.had_error)
          \/ stmts.tag = "Err"
          \/ (resolver # NotRun /\ resolver.has_error)) => NothingExecuted

\* A FILE run of a program with a static error has ended with exit code 65
\* and nothing executed.
C1_Witness_StaticErrorExit ==
    /\ pc = "exited"
    /\ exit_code = 65
    /\ resolver # NotRun
    /\ resolver.has_error
    /\ stmts.tag = "Ok"
    /\ NothingExecuted

\* The Err in flight is the Return signal.
IsReturn(c) == c.m = "err" /\ c.e.error_type.tag = "Return"

\* The Err in flight is an error of the program.
IsFailure(c) == c.m = "err" /\ c.e.error_type.tag # "Return"

\* C2: a runtime error raised at any depth propagates out of every enclosing
\* frame and becomes the Err of Interpreter::interpret: while it is in flight
\* every step hands the same error on and prints nothing, until interpret
\* returns it; no frame turns it into a value and no statement runs after it.
C2_RuntimeErrorReachesInterpret ==
    [][(pc = "executing" /\ IsFailure(ctl)) =>
           \/ (ctl' = ctl /\ printed' = printed /\ stack' = Rest)
           \/ (result' = Err(ctl.e) /\ pc' = "interpreted")
    ]_vars

\* C3: a return inside a non-initializer user function skips the rest of the
\* body.  While the Return signal is in flight each step pops one frame and
\* runs no statement; the first Function::call frame it meets (the innermost
\* active call) turns it into the returned value, Nil when the statement has
\* no value; it is never handed to Interpreter::interpret.
C3_ReturnStopsAtInnermostCall ==
    [][/\ (pc = "executing" /\ IsReturn(ctl)) =>
              /\ Top.f # "interpret"
              /\ stack' = Rest
              /\ printed' = printed
              /\ envs' = envs
              /\ IF Top.f = "function_call"
                 THEN ~Top.function.is_initializer
                          => ctl' = Val(ctl.e.error_type.value)
                 ELSE ctl' = ctl
       /\ (Executing("ReturnStmt") /\ ctl.stmt.value = None) =>
              (IsReturn(ctl') /\ ctl'.e.error_type.value = Nil)
       /\ (Returned("return_stmt")) =>
              (IsReturn(ctl') /\ ctl'.e.error_type.value = ctl.v)
    ]_vars

\* The Return signal carrying 2 is passing the frame of a while loop, on its
\* way out of nested blocks inside a function call.
C3_Witness_ReturnThroughLoop ==
    /\ pc = "executing"
    /\ IsReturn(ctl)
    /\ ctl.e.error_type.value = Number(NumInteger(2))
    /\ Top.f = "while_body"
    /\ \E i \in 1..Len(stack) : stack[i].f = "function_call"

\* The frames of execute_block on the stack, outermost first.
BlockFrames == SelectSeq(stack, LAMBDA fr : fr.f = "execute_block")

\* C4: execute_block leaves Interpreter.environment as it found it on every
\* exit.  The current environment is always the one of the innermost active
\* execute_block (the globals when there is none), and each active
\* execute_block remembers as previous the environment of the one around it;
\* so whenever interpret has returned, with Ok or Err, the current environment
\* is the globals.
C4_EnvironmentRestored ==
    /\ environment = IF BlockFrames = <<>> THEN globals
                     ELSE BlockFrames[Len(BlockFrames)].environment
    /\ \A i \in 1..Len(BlockFrames) :
           BlockFrames[i].previous = IF i = 1 THEN globals
                                     ELSE BlockFrames[i - 1].environment
    /\ result # NotRun => environment = globals

\* interpret has returned the error raised under if, while and two blocks
\* inside a function call, and the current environment is the globals again.
C4_Witness_ErrorLeavesGlobals ==
    /\ pc = "interpreted"
    /\ result.tag = "Err"
    /\ result.e.message = "Operands of Plus must be two numbers or two strings."
    /\ environment = globals
    /\ Len(envs) >= 4


\* A declaration seen from a use: the declared name and where its token is.
\* The scopes of `this` and `super` are opened by the class, before any token
\* of its methods.
Decl(name) == [name |-> name.lexeme, line |-> name.line, column |-> name.column]

ThisScope == {[name |-> "this", line |-> 0, column |-> 0]}

SuperScope == {[name |-> "super", line |-> 0, column |-> 0]}

\* The names a statement list declares directly in its own scope.
Decls(ss) ==
    {Decl(ss[i].name) : i \in {j \in 1..Len(ss) :
                                   ss[j].k \in {"VarStmt", "FunStmt", "ClassStmt"}}}

ParamDecls(params) == {Decl(params[i]) : i \in 1..Len(params)}

\* The declaration token comes before the use in the source text.
Precedes(d, t) == d.line < t.line \/ (d.line = t.line /\ d.column < t.column)

\* One use of a name under the non-global scopes around it, innermost last:
\* whether some of them declares the name at all, and whether some of them
\* declares it before the use.
Use(token, chain) ==
    [token |-> token,
     declared |-> \E i \in 1..Len(chain) : \E d \in chain[i] : d.name = token.lexeme,
     before |-> \E i \in 1..Len(chain) : \E d \in chain[i] :
                    d.name = token.lexeme /\ Precedes(d, token)]

RECURSIVE UsesExpr(_, _), UsesStmt(_, _), UsesStmts(_, _)

\* The Variable, Assign, This and Super uses of an expression, read off the
\* syntax tree.
UsesExpr(e, chain) ==
    CASE e.k = "Literal" -> {}
      [] e.k = "Unary" -> UsesExpr(e.right, chain)
      [] e.k \in {"Binary", "Logical"} ->
            UsesExpr(e.left, chain) \cup UsesExpr(e.right, chain)
      [] e.k = "Grouping" -> UsesExpr(e.expression, chain)
      [] e.k = "Variable" -> {Use(e.name, chain)}
      [] e.k = "Assign" -> {Use(e.name, chain)} \cup UsesExpr(e.value, chain)
      [] e.k = "Call" ->
            UsesExpr(e.callee, chain)
              \cup UNION {UsesExpr(e.arguments[i], chain) : i \in 1..Len(e.arguments)}
      [] e.k = "Get" -> UsesExpr(e.object, chain)
      [] e.k = "Set" -> UsesExpr(e.object, chain) \cup UsesExpr(e.value, chain)
      [] e.k \in {"This", "Super"} -> {Use(e.keyword, chain)}

UsesStmt(s, chain) ==
    CASE s.k \in {"ExprStmt", "PrintStmt"} -> UsesExpr(s.expression, chain)
      [] s.k = "VarStmt" ->
            IF s.initializer = None THEN {} ELSE UsesExpr(s.initializer.v, chain)
      [] s.k = "BlockStmt" ->
            UsesStmts(s.statements, Append(chain, Decls(s.statements)))
      [] s.k = "IfStmt" ->
            UsesExpr(s.condition, chain) \cup UsesStmt(s.then_branch, chain)
              \cup (IF s.else_branch = None THEN {}
                    ELSE UsesStmt(s.else_branch.v, chain))
      [] s.k = "WhileStmt" -> UsesExpr(s.condition, chain) \cup UsesStmt(s.body, chain)
      [] s.k = "FunStmt" ->
            UsesStmts(s.body, Append(chain, ParamDecls(s.params) \cup Decls(s.body)))
      [] s.k = "ReturnStmt" ->
            IF s.value = None THEN {} ELSE UsesExpr(s.value.v, chain)
      [] s.k = "ClassStmt" ->
            LET inner == IF s.super_class = None THEN Append(chain, ThisScope)
                         ELSE chain \o <<SuperScope, ThisScope>>
            IN (IF s.super_class = None THEN {} ELSE UsesExpr(s.super_class.v, chain))
                 \cup UsesStmts(s.methods, inner)

UsesStmts(ss, chain) == UNION {UsesStmt(ss[i], chain) : i \in 1..Len(ss)}

\* The uses of the program that was resolved without a static error.
ResolvedUses ==
    IF resolver # NotRun /\ ~resolver.has_error THEN UsesStmts(stmts.v, <<>>) ELSE {}

BoundInstance(h, function) == h[function.closure].values["this"]

\* C7: Function::call of a bound initializer yields the bound instance, both
\* when the body runs to its end and when it leaves by a value-less return;
\* a property access on an instance binds the method to that very instance,
\* and a class call yields the instance its initializer was bound to.  So
\* init() called on an instance made by Klass(args) yields the same instance.
C7_InitializerYieldsInstance ==
    [][/\ (/\ pc = "executing"
           /\ Top.f = "function_call"
           /\ Top.function.is_initializer
           /\ (ctl.m = "unit" \/ (IsReturn(ctl) /\ ctl.e.error_type.value = Nil)))
          => (/\ BoundInstance(envs, Top.function).t = "Instance"
              /\ ctl' = Val(BoundInstance(envs, Top.function)))
       /\ (Returned("class_call")) => (ctl' = ctl /\ ctl.v.t = "Instance")
       /\ (Returned("get") /\ ctl.v.t = "Instance"
             /\ ctl'.m = "val" /\ ctl'.v.t = "Callable"
             /\ Top.name.lexeme \notin DOMAIN instances[ctl.v.ref].fields)
          => BoundInstance(envs', ctl'.v.f) = ctl.v
    ]_vars

\* `var q = p.init(2);` is about to define q: the value that init returned
\* through its value-less return is the instance bound to p.
C7_Witness_InitOnInstance ==
    /\ Returned("var_stmt")
    /\ Top.name.lexeme = "q"
    /\ ctl.v.t = "Instance"
    /\ Environment_get(envs, environment, "p") = Some(ctl.v)
    /\ instances[ctl.v.ref].fields["x"] = Number(NumInteger(2))
    /\ "y" \in DOMAIN instances[ctl.v.ref].fields

\* The step enters Function::call of a user function: its frame and the frame
\* of execute_block on the body are new on the stack.
CallEntered ==
    /\ pc = "executing"
    /\ Len(stack') > Len(stack)
    /\ stack'[Len(stack')].f = "execute_block"
    /\ stack'[Len(stack') - 1].f = "function_call"

\* C9: every call of a user function creates a fresh environment whose
\* enclosing environment is the closure of the function, and runs the body in
\* it.  No step changes an environment that exists other than by binding or
\* assigning in a single one, and none changes an enclosing link; so the
\* environments of two calls of one function are distinct, what is bound or
\* assigned in one does not show in the other, and their chains above the
\* call frame are the same environments.
C9_FreshCallEnvironment ==
    [][/\ CallEntered =>
              LET function == stack'[Len(stack') - 1].function
              IN /\ environment' \notin 1..Len(envs)
                 /\ environment' \in 1..Len(envs')
                 /\ envs'[environment'].enclosing = function.closure
                 /\ function.closure # environment'
                 /\ DOMAIN envs'[environment'].values
                      = {function.params[i].lexeme : i \in DOMAIN function.params}
                 /\ stack'[Len(stack')].environment = environment'
                 /\ stack'[Len(stack')].previous = environment
                 /\ \A e \in 1..Len(envs) : envs'[e] = envs[e]
       /\ Len(envs') >= Len(envs)
       /\ \A e \in 1..Len(envs) : envs'[e].enclosing = envs[e].enclosing
       /\ Cardinality({e \in 1..Len(envs) : envs'[e] # envs[e]}) <= 1
    ]_vars

\* c1 and c2 are closures of the same declaration made by two calls of make:
\* they capture distinct environments with the same enclosing environment,
\* and after c1(), c1(), c2() the counter of one is 2 and of the other 1.
C9_Witness_TwoCounters ==
    /\ printed = <<"1", "2", "1">>
    /\ \E g \in 1..Len(envs) :
           /\ {"c1", "c2"} \subseteq DOMAIN envs[g].values
           /\ LET c1 == envs[g].values["c1"]
                  c2 == envs[g].values["c2"]
              IN /\ c1.t = "Callable" /\ c2.t = "Callable"
                 /\ c1.f.name = c2.f.name
                 /\ c1.f.closure # c2.f.closure
                 /\ envs[c1.f.closure].enclosing = envs[c2.f.closure].enclosing
                 /\ envs[c1.f.closure].values["i"] = Number(NumInteger(2))
                 /\ envs[c2.f.closure].values["i"] = Number(NumInteger(1))


RECURSIVE ClassesInStmt(_), ClassesInStmts(_)

\* The class declarations of a statement, read off the syntax tree.
ClassesInStmt(s) ==
    CASE s.k = "BlockStmt" -> ClassesInStmts(s.statements)
      [] s.k = "IfStmt" ->
            ClassesInStmt(s.then_branch)
              \cup (IF s.else_branch = None THEN {} ELSE ClassesInStmt(s.else_branch.v))
      [] s.k = "WhileStmt" -> ClassesInStmt(s.body)
      [] s.k = "FunStmt" -> ClassesInStmts(s.body)
      [] s.k = "ClassStmt" -> {s} \cup ClassesInStmts(s.methods)
      [] OTHER -> {}

ClassesInStmts(ss) == UNION {ClassesInStmt(ss[i]) : i \in 1..Len(ss)}

\* The class declaration in whose methods the token occurs.
LexicalClass(keyword) ==
    CHOOSE c \in ClassesInStmts(stmts.v) :
        keyword \in {u.token : u \in UsesStmts(c.methods, <<>>)}

\* The class declaration that a superclass expression names.
DeclaredClass(variable) ==
    CHOOSE c \in ClassesInStmts(stmts.v) : c.name.lexeme = variable.name.lexeme

RECURSIVE DeclaredMethod(_, _)

\* The declaration of method in class declaration c or, failing that, in the
\* declarations of its superclasses, nearest first: the name token of the
\* method, or None.
DeclaredMethod(c, method) ==
    LET own == {i \in 1..Len(c.methods) : c.methods[i].name.lexeme = method}
    IN IF own # {}
       THEN Some(c.methods[CHOOSE i \in own : \A j \in own : j <= i].name)
       ELSE IF c.super_class = None THEN None
            ELSE DeclaredMethod(DeclaredClass(c.super_class.v), method)

\* C10: `super.m` inside a method of class C with superclass S finds m
\* starting at S, the superclass of the declaration that contains the
\* expression (own methods of S first, then up the chain of S), whatever the
\* class of `this` is, and yields that method bound to the current instance;
\* an m found nowhere above C is an undefined property.  The depth d recorded
\* for `super` is at least 1, `super` is bound d environments up and `this`
\* d - 1 environments up.
C10_SuperIsLexical ==
    [][Evaluating("Super") =>
          LET keyword == ctl.expr.keyword
              method == ctl.expr.method.lexeme
              S == DeclaredClass(LexicalClass(keyword).super_class.v)
              found == DeclaredMethod(S, method)
              this == Environment_get(envs, environment, "this")
          IN /\ keyword \in DOMAIN locals
             /\ locals[keyword] >= 1
             /\ "super" \in DOMAIN envs[Up(envs, environment, locals[keyword])].values
             /\ "this" \in DOMAIN envs[Up(envs, environment, locals[keyword] - 1)].values
             /\ this = Some(envs[Up(envs, environment, locals[keyword] - 1)].values["this"])
             /\ IF found = None
                THEN /\ ctl'.m = "err"
                     /\ ctl'.e.message = "Undefined property '" \o method \o "'."
                ELSE /\ ctl'.m = "val"
                     /\ ctl'.v.t = "Callable"
                     /\ ctl'.v.f.name = found.v
                     /\ BoundInstance(envs', ctl'.v.f) = this.v
    ]_vars

\* `super.m` in a method of B, running on an instance of C which overrides m,
\* has yielded the m declared in A, the superclass of B, bound to that
\* instance.
C10_Witness_SuperSkipsOverride ==
    /\ Returned("call_callee")
    /\ Top.expr.callee.k = "Super"
    /\ ctl.v.t = "Callable"
    /\ LexicalClass(Top.expr.callee.keyword).name.lexeme = "B"
    /\ BoundInstance(envs, ctl.v.f).t = "Instance"
    /\ classes[instances[BoundInstance(envs, ctl.v.f).ref].class].name = "C"
    /\ ctl.v.f.name = DeclaredMethod(DeclaredClass(Variable(Id("A", 0, 0))), "m").v
    /\ DeclaredMethod(DeclaredClass(Variable(Id("C", 0, 0))), "m") # Some(ctl.v.f.name)


\* The step ends the evaluation of callee and arguments of a call expression:
\* the next thing visit_call_expr does is to look at the callee.
CallDispatching ==
    /\ pc = "executing"
    /\ ctl.m = "val"
    /\ \/ Top.f = "call_callee" /\ Top.expr.arguments = <<>>
       \/ Top.f = "call_arguments" /\ Len(Top.args) + 1 = Len(Top.expr.arguments)

\* The callee of the call being dispatched.
DispatchedCallee == IF Top.f = "call_callee" THEN ctl.v ELSE Top.callee

\* The number of parameters a function declares.
ParamCount(f) == IF f.kind = "Native" THEN f.arity ELSE Len(f.params)

RECURSIVE InheritedInit(_)

\* The init of a class: its own, else that of the nearest superclass having
\* one, else None.
InheritedInit(c) ==
    IF "init" \in DOMAIN classes[c].methods THEN Some(classes[c].methods["init"])
    ELSE IF classes[c].super_class = NoRef THEN None
         ELSE InheritedInit(classes[c].super_class)

\* The call is refused with the arity error at the closing parenthesis, and
\* nothing else has happened.
ArityRejected(n, m) ==
    /\ ctl' = Raise(Error("Expected " \o ToString(n) \o " arguments but got "
                              \o ToString(m) \o ".",
                          RuntimeError(Top.expr.paren)))
    /\ stack' = Rest
    /\ printed' = printed
    /\ envs' = envs
    /\ environment' = environment

\* C11: a call of a native, of a user function, or of a class with an init
\* (own or inherited) whose argument count differs from the arity is refused
\* with "Expected N arguments but got M." before anything of the callee runs.
\* Otherwise a class call appends a new instance of the class with no fields,
\* leaves every existing instance alone, enters init exactly once, bound to
\* the new instance, when the class has one, and yields the new instance; a
\* class without init is constructed whatever the argument count.
C11_ArityAndConstruction ==
    [][/\ (CallDispatching /\ DispatchedCallee.t = "Callable") =>
              LET f == DispatchedCallee.f
                  m == Len(Top.expr.arguments)
              IN IF ParamCount(f) # m THEN ArityRejected(ParamCount(f), m)
                 ELSE f.kind = "UserDefined" =>
                          /\ CallEntered
                          /\ stack'[Len(stack') - 1].function = f
                          /\ Len(stack') = Len(stack) + 1
       /\ (CallDispatching /\ DispatchedCallee.t = "Class") =>
              LET init == InheritedInit(DispatchedCallee.ref)
                  m == Len(Top.expr.arguments)
                  new == Len(instances) + 1
              IN IF init # None /\ ParamCount(init.v) # m
                 THEN ArityRejected(ParamCount(init.v), m)
                 ELSE /\ Len(instances') = new
                      /\ \A i \in 1..Len(instances) : instances'[i] = instances[i]
                      /\ instances'[new] = [class |-> DispatchedCallee.ref,
                                            fields |-> EmptyMap]
                      /\ IF init = None
                         THEN ctl' = Val(Instance(new)) /\ stack' = Rest
                         ELSE /\ CallEntered
                              /\ Len(stack') = Len(stack) + 2
                              /\ stack'[Len(stack') - 2] =
                                     [f |-> "class_call", instance |-> Instance(new)]
                              /\ stack'[Len(stack') - 1].function.name = init.v.name
                              /\ BoundInstance(envs', stack'[Len(stack') - 1].function)
                                     = Instance(new)
       /\ Returned("class_call") => (ctl' = Val(Top.instance) /\ stack' = Rest)
    ]_vars

\* `E(1, 2)` on a class without init has made an instance next to another
\* instance of the same class, and `clock(1)` has been refused.
C11_Witness_NoInitAnyArguments ==
    /\ pc = "executing"
    /\ IsFailure(ctl)
    /\ ctl.e.message = "Expected 0 arguments but got 1."
    /\ printed = <<"e", "f">>
    /\ Len(instances) = 2
    /\ instances[1].class = instances[2].class
    /\ instances[1].fields # instances[2].fields
    /\ InheritedInit(instances[1].class) = None


\* C12: a call expression evaluates its callee first, then its arguments from
\* the first to the last, each starting when the one before has yielded its
\* value; the callee is looked at (kind, arity) only when all arguments are
\* known, and the function receives them in that order.  A field assignment
\* evaluates its object first and its value after it.
C12_EvaluationOrder ==
    [][/\ Evaluating("Call") =>
              (ctl' = Eval(ctl.expr.callee) /\ printed' = printed)
       /\ (Returned("call_callee") /\ Top.expr.arguments # <<>>) =>
              /\ ctl' = Eval(Top.expr.arguments[1])
              /\ stack'[Len(stack')].f = "call_arguments"
              /\ stack'[Len(stack')].callee = ctl.v
              /\ stack'[Len(stack')].args = <<>>
       /\ (Returned("call_arguments")
             /\ Len(Top.args) + 1 < Len(Top.expr.arguments)) =>
              /\ ctl' = Eval(Top.expr.arguments[Len(Top.args) + 2])
              /\ stack'[Len(stack')] = [Top EXCEPT !.args = Append(Top.args, ctl.v)]
       /\ (pc = "executing" /\ ctl.m = "val" /\ ctl'.m = "err"
             /\ Top.f \in {"call_callee", "call_arguments"}) => CallDispatching
       /\ (CallDispatching /\ CallEntered) =>
              LET args == IF Top.f = "call_callee" THEN <<>>
                          ELSE Append(Top.args, ctl.v)
                  function == stack'[Len(stack') - 1].function
              IN /\ Len(args) = Len(function.params)
                 /\ \A i \in 1..Len(args) :
                        (\A j \in i + 1..Len(args) :
                             function.params[j].lexeme # function.params[i].lexeme)
                          => envs'[environment'].values[function.params[i].lexeme]
                                 = args[i]
       /\ Evaluating("Set") => ctl' = Eval(ctl.expr.object)
       /\ (Returned("set_object") /\ ctl.v.t = "Instance") =>
              ctl' = Eval(Top.expr.value)
       /\ Returned("set_value") =>
              (ctl' = ctl /\ instances'[Top.instance].fields[Top.name.lexeme] = ctl.v)
    ]_vars

\* The calls t("callee")(t("arg1"), t("arg2")) and mk("obj").f = t("val")
\* have printed in the order of evaluation, and only then the string that
\* t("callee") returned has been refused as a callee.
C12_Witness_PrintedInOrder ==
    /\ pc = "executing"
    /\ IsFailure(ctl)
    /\ ctl.e.message = "Can only call functions and classes."
    /\ printed = <<"1", "2", "3", "obj", "val", "callee", "arg1", "arg2">>


\* The only values that count as false.
Falsey(v) == v = Nil \/ v = Boolean(FALSE)

\* C13: a logical expression evaluates its left operand first.  `or` yields
\* the left value itself when it is not falsey and otherwise evaluates the
\* right operand and yields its value; `and` yields the left value itself when
\* it is falsey and otherwise evaluates the right operand and yields its
\* value.  Only nil and false are falsey, no value is coerced to a Boolean,
\* and a right operand that is skipped has no effect.
C13_ShortCircuit ==
    [][/\ Evaluating("Logical") =>
              /\ ctl' = Eval(ctl.expr.left)
              /\ stack' = Push([f |-> "logic", expr |-> ctl.expr])
       /\ Returned("logic") =>
              LET skip == IF Top.expr.operator.token_type = "Or"
                          THEN ~Falsey(ctl.v) ELSE Falsey(ctl.v)
              IN /\ Top.expr.operator.token_type \in {"Or", "And"}
                 /\ stack' = Rest
                 /\ ctl' = IF skip THEN Val(ctl.v) ELSE Eval(Top.expr.right)
                 /\ UNCHANGED <<environment, envs, classes, instances, printed>>
    ]_vars

\* `false and f()` and `true or f()` have printed false and true without the
\* f that f() prints; `nil or f()` and `1 and f()` have called f; 0 and the
\* empty string were not falsey, and `nil and 1`, `false or nil` gave nil.
C13_Witness_RightOperandSkipped ==
    /\ pc = "returned"
    /\ printed = <<"false", "true", "f", "r", "f", "r", "zero", "", "nil", "nil">>


-----------------------------------------------------------------------------
(* The binary operators of visit_binary_expr applied to operand values:     *)
(* call holds the two operands, the operator applied last and its result.   *)

\* The operand values: every kind of Object, Integers and Floats of equal and
\* of different magnitude, zero of both kinds, and an infinity.
Operands ==
    {Nil, Boolean(TRUE), Boolean(FALSE)}
    \cup {Number(NumInteger(n)) : n \in {-3, 0, 1, 2, 7}}
    \cup {Number(Ratio(n, 1)) : n \in {-3, 0, 1, 2}}
    \cup {Number(Ratio(1, 2)), Number(Ratio(7, 2)), Number(Ratio(1, 0))}
    \cup {String(""), String("a"), String("ab"), String("1")}
    \cup {Callable(Native("clock", 0)), Class(1), Instance(1), Instance(2)}

OperatorLexeme ==
    [Plus |-> "+", Minus |-> "-", Star |-> "*", Slash |-> "/",
     EqualEqual |-> "==", BangEqual |-> "!=", Greater |-> ">",
     GreaterEqual |-> ">=", Less |-> "<", LessEqual |-> "<="]

ValueInit ==
    /\ DriverIdle
    /\ envs = <<Environment_new(NoRef)>>
    /\ \E left \in Operands, right \in Operands :
           call = [op |-> "operands", left |-> left, right |-> right,
                   result |-> None]

\* visit_binary_expr on the operands of call, both evaluated, for an operator
\* of token type tt.
Apply(tt) ==
    /\ call' = [call EXCEPT
                  !.op = tt,
                  !.result = binary_expr_result(Token(OperatorLexeme[tt], tt, 1, 1),
                                                call.left, call.right)]
    /\ UNCHANGED envs
    /\ DriverUnchanged

VEquality == \E tt \in {"EqualEqual", "BangEqual"} : Apply(tt)

VArithmetic == \E tt \in {"Plus", "Minus", "Star", "Slash"} : Apply(tt)

VComparison == \E tt \in {"Greater", "GreaterEqual", "Less", "LessEqual"} : Apply(tt)

ValueNext == VEquality \/ VArithmetic \/ VComparison

SpecValue == ValueInit /\ [][ValueNext]_vars

\* The equality the language description gives: by kind, numbers by their
\* mathematical value whatever their representation.
ClaimedEqual(x, y) ==
    \/ x = Nil /\ y = Nil
    \/ /\ x.t = "Number" /\ y.t = "Number"
       /\ as_float(x.num) = as_float(y.num)
    \/ x.t = "String" /\ y.t = "String" /\ x.s = y.s
    \/ x.t = "Boolean" /\ y.t = "Boolean" /\ x.b = y.b

\* C14: x == y is true exactly when both are nil, or both are numbers of the
\* same mathematical value whatever their representation (Integer 1 equals
\* Float 1.0), or both are strings of the same contents, or both are booleans
\* of the same value; x != y is its negation.
C14_EqualityAcrossRepresentations ==
    call.op \in {"EqualEqual", "BangEqual"} =>
        call.result = Ok(Boolean((call.op = "EqualEqual")
                                    = ClaimedEqual(call.left, call.right)))

\* The exact quotient and remainder of i64 division: q = a / b iff
\* a = q * b + r with |r| < |b| and r zero or of the sign of a.
IsQuotient(q, a, b) ==
    LET r == a - q * b
        abs(x) == IF x < 0 THEN -x ELSE x
    IN abs(r) < abs(b) /\ (r = 0 \/ (r < 0) = (a < 0))

\* x is the Float of the mathematical result of l op r, for finite l and r
\* and a divisor other than zero.
IsFloatResult(x, tt, l, r) ==
    LET a == as_float(l)
        b == as_float(r)
    IN x.nt = "Float" /\
       IF a.d = 0 \/ b.d = 0 \/ (tt = "Slash" /\ b.n = 0) THEN TRUE
       ELSE /\ x.d > 0
            /\ CASE tt = "Plus" -> x.n * (a.d * b.d) = x.d * (a.n * b.d + b.n * a.d)
                 [] tt = "Minus" -> x.n * (a.d * b.d) = x.d * (a.n * b.d - b.n * a.d)
                 [] tt = "Star" -> x.n * (a.d * b.d) = x.d * (a.n * b.n)
                 [] tt = "Slash" -> x.n * (a.d * b.n) = x.d * (a.n * b.d)

\* C15: + - * / on two numbers give an Integer exactly when both operands
\* are Integers (the sum, difference, product, or the quotient truncated
\* towards zero) and a Float as soon as one operand is a Float; an Integer
\* divided by the Integer zero gives the error "Division by zero." and no
\* value; two strings are concatenated by +, and any other operands give a
\* runtime error at the operator.
C15_ArithmeticResultKind ==
    call.op \in {"Plus", "Minus", "Star", "Slash"} =>
        LET l == call.left
            r == call.right
            res == call.result
        IN IF l.t = "Number" /\ r.t = "Number"
           THEN IF l.num.nt = "Integer" /\ r.num.nt = "Integer"
                THEN IF call.op = "Slash" /\ r.num.n = 0
                     THEN res.tag = "Err" /\ res.e.message = "Division by zero."
                     ELSE /\ res.tag = "Ok" /\ res.v.t = "Number"
                          /\ res.v.num.nt = "Integer"
                          /\ DOMAIN res.v.num = {"nt", "n"}
                          /\ CASE call.op = "Plus" -> res.v.num.n = l.num.n + r.num.n
                               [] call.op = "Minus" -> res.v.num.n = l.num.n - r.num.n
                               [] call.op = "Star" -> res.v.num.n = l.num.n * r.num.n
                               [] call.op = "Slash" ->
                                      IsQuotient(res.v.num.n, l.num.n, r.num.n)
                ELSE /\ res.tag = "Ok" /\ res.v.t = "Number"
                     /\ IsFloatResult(res.v.num, call.op, l.num, r.num)
           ELSE IF call.op = "Plus" /\ l.t = "String" /\ r.t = "String"
           THEN res = Ok(String(l.s \o r.s))
           ELSE /\ res.tag = "Err"
                /\ res.e.error_type.tag = "RuntimeError"
                /\ res.e.error_type.token.token_type = call.op

\* 7 / 0 on two Integers has given the error and no value.
C15_Witness_IntegerDivisionByZero ==
    /\ call.op = "Slash"
    /\ call.left = Number(NumInteger(7))
    /\ call.right = Number(NumInteger(0))
    /\ call.result.tag = "Err"
    /\ call.result.e.message = "Division by zero."


-----------------------------------------------------------------------------
(* The parser (parser.rs).  A parser p is [tokens, current, reported]:      *)
(* tokens ends with an Eof token, current counts the tokens consumed, and   *)
(* reported lists what parse_error wrote to stderr.  A method taking        *)
(* &mut self and returning a Result is an operator from p to                *)
(* [p |-> the parser afterwards, res |-> Ok(..) or Err(..)].  Indexing      *)
(* (LeftBracket) is left out: the inputs hold no bracket.                   *)

Parser_new(tokens) == [tokens |-> tokens, current |-> 0, reported |-> <<>>]

Parsed(p, res) == [p |-> p, res |-> res]

\* `let x = a; F(x)`: a is computed once, before F.
Bind(a, F(_)) == CHOOSE y \in {F(x) : x \in {a}} : TRUE

\* `let x = a?; F(x)`: an Err of a is returned at once.
Try(a, F(_)) ==
    CHOOSE y \in {IF x.res.tag = "Err" THEN x ELSE F(x) : x \in {a}} : TRUE

peak(p) == p.tokens[p.current + 1]

is_end(p) == peak(p).token_type = "Eof"

previous(p) == p.tokens[p.current]

advance(p) == IF ~is_end(p) THEN [p EXCEPT !.current = @ + 1] ELSE p

check(p, token_type) == ~is_end(p) /\ peak(p).token_type = token_type

\* The test of the macro matches!; where it holds the macro advances.
matches(p, token_types) == \E token_type \in token_types : check(p, token_type)

\* Parser::error, and the Err its callers return.
Parser_error(p, token, message) ==
    Parsed([p EXCEPT !.reported = Append(@, parse_error(token, message))],
           Err(Error(message, SyntaxError)))

consume(p, token_type, message) ==
    IF check(p, token_type)
    THEN Parsed(advance(p), Ok(peak(p)))
    ELSE Parser_error(p, peak(p), message)

RECURSIVE synchronize_loop(_)
synchronize_loop(p) ==
    IF is_end(p) THEN p
    ELSE IF previous(p).token_type = "Semicolon" THEN p
    ELSE IF peak(p).token_type \in {"Class", "Fun", "Var", "For", "If", "While",
                                    "Print", "Return"} THEN p
    ELSE Bind(advance(p), LAMBDA next : synchronize_loop(next))

synchronize(p) == Bind(advance(p), LAMBDA next : synchronize_loop(next))

\* lexeme[1..len - 1] of the String tokens of the inputs.
StringContents == [x \in {"\"s\""} |-> "s"]

\* lexeme.parse::<i64>(), and lexeme.parse::<f64>() where that fails, of the
\* Number tokens of the inputs.
NumberValue ==
    [x \in {"0", "1", "2", "3", "1.5"} |->
        CASE x = "0" -> NumInteger(0)
          [] x = "1" -> NumInteger(1)
          [] x = "2" -> NumInteger(2)
          [] x = "3" -> NumInteger(3)
          [] x = "1.5" -> Ratio(3, 2)]

RECURSIVE expression(_)

primary(p) ==
    IF matches(p, {"False"}) THEN Parsed(advance(p), Ok(Literal(LitBoolean(FALSE))))
    ELSE IF matches(p, {"True"}) THEN Parsed(advance(p), Ok(Literal(LitBoolean(TRUE))))
    ELSE IF matches(p, {"Nil"}) THEN Parsed(advance(p), Ok(Literal(LitNil)))
    ELSE IF matches(p, {"String"})
    THEN Parsed(advance(p), Ok(Literal(LitString(StringContents[peak(p).lexeme]))))
    ELSE IF matches(p, {"Number"})
    THEN IF peak(p).lexeme \in DOMAIN NumberValue
         THEN Parsed(advance(p), Ok(Literal(LitNumber(NumberValue[peak(p).lexeme]))))
         ELSE Parser_error(advance(p), peak(p), "Invalid number.")
    ELSE IF matches(p, {"Identifier"}) THEN Parsed(advance(p), Ok(Variable(peak(p))))
    ELSE IF matches(p, {"LeftParen"})
    THEN Try(expression(advance(p)), LAMBDA expr :
         Try(consume(expr.p, "RightParen", "Expect ')' after expression."),
             LAMBDA paren :
         Parsed(paren.p, Ok(Grouping(expr.res.v)))))
    ELSE IF matches(p, {"This"}) THEN Parsed(advance(p), Ok(This(peak(p))))
    ELSE IF matches(p, {"Super"})
    THEN Try(consume(advance(p), "Dot", "Expect '.' after 'super'."), LAMBDA dot :
         Try(consume(dot.p, "Identifier", "Expect superclass method name."),
             LAMBDA method :
         Parsed(method.p, Ok(Super(peak(p), method.res.v)))))
    ELSE Parser_error(p, peak(p), "Expect expression.")

\* The loop of finish_call, arguments parsed so far.
RECURSIVE finish_call_loop(_, _)
finish_call_loop(p, arguments) ==
    IF Len(arguments) >= 255
    THEN Parser_error(p, peak(p), "Can't have more than 255 arguments.")
    ELSE Try(expression(p), LAMBDA argument :
         IF matches(argument.p, {"Comma"})
         THEN finish_call_loop(advance(argument.p), Append(arguments, argument.res.v))
         ELSE Parsed(argument.p, Ok(Append(arguments, argument.res.v))))

finish_call(p, expr) ==
    Try(IF ~check(p, "RightParen") THEN finish_call_loop(p, <<>>)
        ELSE Parsed(p, Ok(<<>>)),
        LAMBDA arguments :
    Try(consume(arguments.p, "RightParen", "Expect ')' after arguments."),
        LAMBDA paren :
    Parsed(paren.p, Ok(Call(expr, paren.res.v, arguments.res.v)))))

\* The loop of call_index, expr parsed so far.
RECURSIVE call_index_loop(_, _)
call_index_loop(p, expr) ==
    IF matches(p, {"LeftParen"})
    THEN Try(finish_call(advance(p), expr), LAMBDA call_expr :
         call_index_loop(call_expr.p, call_expr.res.v))
    ELSE IF matches(p, {"Dot"})
    THEN Try(consume(advance(p), "Identifier", "Expect property name after '.'."),
             LAMBDA name :
         call_index_loop(name.p, Get(expr, name.res.v)))
    ELSE Parsed(p, Ok(expr))

call_index(p) ==
    Try(primary(p), LAMBDA expr : call_index_loop(expr.p, expr.res.v))

RECURSIVE unary(_)
unary(p) ==
    IF matches(p, {"Bang", "Minus"})
    THEN Try(unary(advance(p)), LAMBDA right :
         Parsed(right.p, Ok(Unary(peak(p), right.res.v))))
    ELSE call_index(p)

\* logic_or, logic_and, equality, comparison, term and factor have one body:
\* an operand of the next level, then `while matches!(self, ..)` an operator
\* and another operand, folded to the left.
RECURSIVE binary(_, _)

factor(p) == binary(p, "factor")

term(p) == binary(p, "term")

comparison(p) == binary(p, "comparison")

equality(p) == binary(p, "equality")

logic_and(p) == binary(p, "logic_and")

logic_or(p) == binary(p, "logic_or")

\* The token types each level matches.
operators ==
    [logic_or |-> {"Or"}, logic_and |-> {"And"},
     equality |-> {"BangEqual", "EqualEqual"},
     comparison |-> {"Greater", "GreaterEqual", "Less", "LessEqual"},
     term |-> {"Minus", "Plus"}, factor |-> {"Slash", "Star"}]

\* A plausible slip: term and factor parse each other's operands.
operand_exchanged(p, level) ==
    CASE level = "logic_or" -> logic_and(p)
      [] level = "logic_and" -> equality(p)
      [] level = "equality" -> comparison(p)
      [] level = "comparison" -> factor(p)
      [] level = "factor" -> term(p)
      [] level = "term" -> unary(p)

\* The method each level calls for its operands.
operand(p, level) ==
    CASE level = "logic_or" -> logic_and(p)
      [] level = "logic_and" -> equality(p)
      [] level = "equality" -> comparison(p)
      [] level = "comparison" -> term(p)
      [] level = "term" -> factor(p)
      [] level = "factor" -> unary(p)

RECURSIVE binary_loop(_, _, _)
binary_loop(p, expr, level) ==
    IF matches(p, operators[level])
    THEN Try(operand(advance(p), level), LAMBDA right :
         binary_loop(right.p,
                     IF level \in {"logic_or", "logic_and"}
                     THEN Logical(expr, peak(p), right.res.v)
                     ELSE Binary(expr, peak(p), right.res.v),
                     level))
    ELSE Parsed(p, Ok(expr))

binary(p, level) ==
    Try(operand(p, level), LAMBDA expr : binary_loop(expr.p, expr.res.v, level))

\* `let expr = self.logic_or();` carries no `?`: an Err is kept until the
\* end, or replaced when a `=` follows it.
RECURSIVE assignment(_)
assignment(p) ==
    Bind(logic_or(p), LAMBDA expr :
    IF matches(expr.p, {"Equal"})
    THEN Try(assignment(advance(expr.p)), LAMBDA value :
         IF expr.res.tag = "Ok" /\ expr.res.v.k = "Variable"
         THEN Parsed(value.p, Ok(Assign(expr.res.v.name, value.res.v)))
         ELSE IF expr.res.tag = "Ok" /\ expr.res.v.k = "Get"
         THEN Parsed(value.p, Ok(SetExpr(expr.res.v.object, expr.res.v.name,
                                         value.res.v)))
         ELSE Parser_error(value.p, previous(value.p),
                           "Invalid assignment target."))
    ELSE expr)

expression(p) == assignment(p)

RECURSIVE declaration(_)
RECURSIVE statement(_)

var_decl(p) ==
    Try(consume(p, "Identifier", "Expect variable name."), LAMBDA name :
    Try(IF matches(name.p, {"Equal"})
        THEN Try(expression(advance(name.p)), LAMBDA value :
             Parsed(value.p, Ok(Some(value.res.v))))
        ELSE Parsed(name.p, Ok(None)),
        LAMBDA initializer :
    Try(consume(initializer.p, "Semicolon", "Expect ';' after variable declaration."),
        LAMBDA semicolon :
    Parsed(semicolon.p, Ok(VarStmt(name.res.v, initializer.res.v))))))

\* The loop of block_statement, statements parsed so far.
RECURSIVE block_statement_loop(_, _)
block_statement_loop(p, stmt_list) ==
    IF ~check(p, "RightBrace") /\ ~is_end(p)
    THEN Try(declaration(p), LAMBDA stmt :
         block_statement_loop(stmt.p, Append(stmt_list, stmt.res.v)))
    ELSE Parsed(p, Ok(stmt_list))

block_statement(p) ==
    Try(block_statement_loop(p, <<>>), LAMBDA stmt_list :
    Try(consume(stmt_list.p, "RightBrace", "Expect '}' after block"), LAMBDA brace :
    Parsed(brace.p, Ok(stmt_list.res.v))))

\* The loop of function, parameters parsed so far.
RECURSIVE function_loop(_, _)
function_loop(p, parameters) ==
    IF Len(parameters) >= 255
    THEN Parser_error(p, peak(p), "Can't have more than 255 parameters.")
    ELSE Try(consume(p, "Identifier", "Expect parameter name."), LAMBDA parameter :
         IF matches(parameter.p, {"Comma"})
         THEN function_loop(advance(parameter.p),
                            Append(parameters, parameter.res.v))
         ELSE Parsed(parameter.p, Ok(Append(parameters, parameter.res.v))))

function(p, kind) ==
    Try(consume(p, "Identifier", "Expect function name."), LAMBDA name :
    Try(consume(name.p, "LeftParen", "Expect '(' after function name."), LAMBDA left :
    Try(IF ~check(left.p, "RightParen") THEN function_loop(left.p, <<>>)
        ELSE Parsed(left.p, Ok(<<>>)),
        LAMBDA parameters :
    Try(consume(parameters.p, "RightParen", "Expect ')' after parameters."),
        LAMBDA right :
    Try(consume(right.p, "LeftBrace", "Expect '{' before " \o kind \o " body."),
        LAMBDA brace :
    Try(block_statement(brace.p), LAMBDA body :
    Parsed(body.p, Ok(FunStmt(name.res.v, parameters.res.v, body.res.v)))))))))

\* The loop of class_decl, methods parsed so far.
RECURSIVE class_decl_loop(_, _)
class_decl_loop(p, methods) ==
    IF ~check(p, "RightBrace")
    THEN Try(function(p, "method"), LAMBDA method :
         class_decl_loop(method.p, Append(methods, method.res.v)))
    ELSE Parsed(p, Ok(methods))

class_decl(p) ==
    Try(consume(p, "Identifier", "Expect class name."), LAMBDA name :
    Try(IF matches(name.p, {"Less"})
        THEN Try(consume(advance(name.p), "Identifier", "Expect superclass name."),
                 LAMBDA super :
             Parsed(super.p, Ok(Some(Variable(previous(super.p))))))
        ELSE Parsed(name.p, Ok(None)),
        LAMBDA super_class :
    Try(consume(super_class.p, "LeftBrace", "Expect '{' before class body."),
        LAMBDA brace :
    Try(class_decl_loop(brace.p, <<>>), LAMBDA methods :
    Try(consume(methods.p, "RightBrace", "Expect '}' after class body."),
        LAMBDA close :
    Parsed(close.p, Ok(ClassStmt(name.res.v, super_class.res.v, methods.res.v))))))))

expression_statement(p) ==
    Try(expression(p), LAMBDA expr :
    Try(consume(expr.p, "Semicolon", "Expect ';' after value."), LAMBDA semicolon :
    Parsed(semicolon.p, Ok(ExprStmt(expr.res.v)))))

print_statement(p) ==
    Try(expression(p), LAMBDA expr :
    Try(consume(expr.p, "Semicolon", "Expect ';' after value."), LAMBDA semicolon :
    Parsed(semicolon.p, Ok(PrintStmt(expr.res.v)))))

if_statement(p) ==
    Try(consume(p, "LeftParen", "Expect '(' after 'if'."), LAMBDA left :
    Try(expression(left.p), LAMBDA condition_expr :
    Try(consume(condition_expr.p, "RightParen", "Expect ')' after if condition."),
        LAMBDA right :
    Try(statement(right.p), LAMBDA branch_stmt :
    Try(IF matches(branch_stmt.p, {"Else"})
        THEN Try(statement(advance(branch_stmt.p)), LAMBDA stmt :
             Parsed(stmt.p, Ok(Some(stmt.res.v))))
        ELSE Parsed(branch_stmt.p, Ok(None)),
        LAMBDA else_stmt :
    Parsed(else_stmt.p,
           Ok(IfStmt(condition_expr.res.v, branch_stmt.res.v, else_stmt.res.v))))))))

while_statement(p) ==
    Try(consume(p, "LeftParen", "Expect '(' after 'while'."), LAMBDA left :
    Try(expression(left.p), LAMBDA condition :
    Try(consume(condition.p, "RightParen", "Expect ')' after condition."),
        LAMBDA right :
    Try(statement(right.p), LAMBDA body :
    Parsed(body.p, Ok(WhileStmt(condition.res.v, body.res.v)))))))

\* A plausible slip: the increment runs before the body.
for_body_increment_first(body, increment) ==
    IF increment # None THEN BlockStmt(<<ExprStmt(increment.v), body>>) ELSE body

\* The body of the loop for_statement builds: the increment, when there is
\* one, follows the body in a block.
for_body(body, increment) ==
    IF increment # None THEN BlockStmt(<<body, ExprStmt(increment.v)>>) ELSE body

for_statement(p) ==
    Try(consume(p, "LeftParen", "Expect '(' after 'for'."), LAMBDA left :
    Try(IF matches(left.p, {"Semicolon"}) THEN Parsed(advance(left.p), Ok(None))
        ELSE Try(IF matches(left.p, {"Var"}) THEN var_decl(advance(left.p))
                 ELSE expression_statement(left.p),
                 LAMBDA stmt :
             Parsed(stmt.p, Ok(Some(stmt.res.v)))),
        LAMBDA initializer :
    Try(IF check(initializer.p, "Semicolon")
        THEN Parsed(initializer.p, Ok(Literal(LitBoolean(TRUE))))
        ELSE expression(initializer.p),
        LAMBDA condition :
    Try(consume(condition.p, "Semicolon", "Expect ';' after loop condition."),
        LAMBDA semicolon :
    Try(IF check(semicolon.p, "RightParen") THEN Parsed(semicolon.p, Ok(None))
        ELSE Try(expression(semicolon.p), LAMBDA expr :
             Parsed(expr.p, Ok(Some(expr.res.v)))),
        LAMBDA increment :
    Try(consume(increment.p, "RightParen", "Expect ')' after for clauses."),
        LAMBDA right :
    Try(statement(right.p), LAMBDA body :
    Parsed(body.p,
           Ok(IF initializer.res.v # None
              THEN BlockStmt(<<initializer.res.v.v,
                               WhileStmt(condition.res.v,
                                         for_body(body.res.v, increment.res.v))>>)
              ELSE WhileStmt(condition.res.v,
                             for_body(body.res.v, increment.res.v)))))))))))

\* The Return token has been matched: p.current is past it.
return_statement(p) ==
    Try(IF ~check(p, "Semicolon")
        THEN Try(expression(p), LAMBDA expr : Parsed(expr.p, Ok(Some(expr.res.v))))
        ELSE Parsed(p, Ok(None)),
        LAMBDA value :
    Try(consume(value.p, "Semicolon", "Expect ';' after return value."),
        LAMBDA semicolon :
    Parsed(semicolon.p, Ok(ReturnStmt(previous(p), value.res.v)))))

statement(p) ==
    IF matches(p, {"Print"}) THEN print_statement(advance(p))
    ELSE IF matches(p, {"LeftBrace"})
    THEN Try(block_statement(advance(p)), LAMBDA statements :
         Parsed(statements.p, Ok(BlockStmt(statements.res.v))))
    ELSE IF matches(p, {"If"}) THEN if_statement(advance(p))
    ELSE IF matches(p, {"While"}) THEN while_statement(advance(p))
    ELSE IF matches(p, {"For"}) THEN for_statement(advance(p))
    ELSE IF matches(p, {"Return"}) THEN return_statement(advance(p))
    ELSE expression_statement(p)

declaration(p) ==
    Bind(IF matches(p, {"Var"}) THEN var_decl(advance(p))
         ELSE IF matches(p, {"Fun"}) THEN function(advance(p), "function")
         ELSE IF matches(p, {"Class"}) THEN class_decl(advance(p))
         ELSE statement(p),
         LAMBDA res :
    IF res.res.tag = "Err" THEN Parsed(synchronize(res.p), res.res) ELSE res)

\* The loop of Parser::parse, statements parsed so far: `?` returns the Err
\* of the first declaration that fails.
RECURSIVE parse_loop(_, _)
parse_loop(p, stmt_list) ==
    IF ~is_end(p)
    THEN Try(declaration(p), LAMBDA stmt :
         parse_loop(stmt.p, Append(stmt_list, stmt.res.v)))
    ELSE Parsed(p, Ok(stmt_list))

Parser_parse(p) == parse_loop(p, <<>>)

-----------------------------------------------------------------------------
(* Inputs of the parser: the tokens of a source text followed by the Eof    *)
(* token Parser::is_end looks for.                                          *)

\* The token type of a lexeme.
token_type_of(lexeme) ==
    CASE lexeme = "(" -> "LeftParen" [] lexeme = ")" -> "RightParen"
      [] lexeme = "{" -> "LeftBrace" [] lexeme = "}" -> "RightBrace"
      [] lexeme = "," -> "Comma" [] lexeme = "." -> "Dot"
      [] lexeme = "-" -> "Minus" [] lexeme = "+" -> "Plus"
      [] lexeme = ";" -> "Semicolon" [] lexeme = "/" -> "Slash"
      [] lexeme = "*" -> "Star" [] lexeme = "!" -> "Bang"
      [] lexeme = "!=" -> "BangEqual" [] lexeme = "=" -> "Equal"
      [] lexeme = "==" -> "EqualEqual" [] lexeme = ">" -> "Greater"
      [] lexeme = ">=" -> "GreaterEqual" [] lexeme = "<" -> "Less"
      [] lexeme = "<=" -> "LessEqual"
      [] lexeme = "and" -> "And" [] lexeme = "class" -> "Class"
      [] lexeme = "else" -> "Else" [] lexeme = "false" -> "False"
      [] lexeme = "fun" -> "Fun" [] lexeme = "for" -> "For"
      [] lexeme = "if" -> "If" [] lexeme = "nil" -> "Nil"
      [] lexeme = "or" -> "Or" [] lexeme = "print" -> "Print"
      [] lexeme = "return" -> "Return" [] lexeme = "super" -> "Super"
      [] lexeme = "this" -> "This" [] lexeme = "true" -> "True"
      [] lexeme = "var" -> "Var" [] lexeme = "while" -> "While"
      [] lexeme \in DOMAIN NumberValue -> "Number"
      [] lexeme \in DOMAIN StringContents -> "String"
      [] OTHER -> "Identifier"

\* The tokens of the lexemes of one source line, columns counted in tokens.
Lexed(lexemes, line) ==
    [i \in 1..Len(lexemes) |-> Token(lexemes[i], token_type_of(lexemes[i]), line, i)]

\* The token that ends every token sequence.
Eof(line) == Token("", "Eof", line, 1)


\* Number of binary operators in the expressions parsed: 1..MaxOperators.
MaxOperators == 2

\* Number of declarations in the programs parsed: 1..MaxDecls.
MaxDecls == 3

RECURSIVE Concat(_)
Concat(seqs) == IF seqs = <<>> THEN <<>> ELSE Head(seqs) \o Concat(Tail(seqs))

\* One operator of each level, two of term.
InfixLexemes == {"=", "or", "and", "==", "<", "+", "-", "*"}

\* What the second operand of an expression is: a name, negated, called, or
\* both.
OperandForms ==
    [plain |-> <<"b">>, unary |-> <<"-", "b">>, call |-> <<"b", "(", ")">>,
     unary_call |-> <<"-", "b", "(", ")">>]

OperandNames == <<"a", "b", "c", "d", "e">>

\* a op1 B op2 c op3 d .. ; with B the second operand in the given form.
ExpressionLexemes(ops, form) ==
    <<"a">>
    \o Concat([i \in 1..Len(ops) |->
                  <<ops[i]>> \o (IF i = 1 THEN OperandForms[form]
                                 ELSE <<OperandNames[i + 1]>>)])
    \o <<";">>

\* Where the i-th operator of ExpressionLexemes(ops, form) stands.
OperatorPosition(i, form) ==
    IF i = 1 THEN 2 ELSE 2 * i + Len(OperandForms[form]) - 1

ExpressionInputs ==
    {[family |-> "expression", ops |-> ops, form |-> form,
      tokens |-> Lexed(ExpressionLexemes(ops, form), 1) \o <<Eof(2)>>,
      other |-> <<>>] :
        ops \in UNION {[1..n -> InfixLexemes] : n \in 1..MaxOperators},
        form \in DOMAIN OperandForms}

\* The clauses of a for statement and its body, each on a line of its own.
ForInitializers ==
    [none |-> <<>>, var |-> <<"var", "i", "=", "0">>, expr |-> <<"i", "=", "0">>]

ForConditions == [none |-> <<>>, less |-> <<"i", "<", "2">>]

ForIncrements == [none |-> <<>>, assign |-> <<"i", "=", "i", "+", "1">>]

ForBodies ==
    [print |-> <<"print", "i", ";">>,
     block |-> <<"{", "print", "i", ";", "}">>,
     expr |-> <<"i", "=", "i", "+", "1", ";">>,
     if |-> <<"if", "(", "i", ")", "print", "i", ";">>]

\* for ( I ; C ; U ) B
ForTokens(I, C, U, B) ==
    Lexed(<<"for", "(">>, 1) \o I
    \o Lexed(<<";">>, 1) \o C \o Lexed(<<";">>, 1) \o U \o Lexed(<<")">>, 1) \o B
    \o <<Eof(6)>>

\* { I ; while ( C ) { B U ; } } written by hand: true for a missing C, no
\* outer block without I, no inner block without U.
WhileTokens(I, C, U, B) ==
    LET loop == Lexed(<<"while", "(">>, 1)
                \o (IF C = <<>> THEN Lexed(<<"true">>, 1) ELSE C)
                \o Lexed(<<")">>, 1)
                \o (IF U = <<>> THEN B
                    ELSE Lexed(<<"{">>, 1) \o B \o U \o Lexed(<<";", "}">>, 1))
    IN (IF I = <<>> THEN loop
        ELSE Lexed(<<"{">>, 1) \o I \o Lexed(<<";">>, 1) \o loop \o Lexed(<<"}">>, 1))
       \o <<Eof(6)>>

ForInputs ==
    {[family |-> "for", initializer |-> i, condition |-> c, increment |-> u,
      body |-> b,
      tokens |-> ForTokens(Lexed(ForInitializers[i], 2), Lexed(ForConditions[c], 3),
                           Lexed(ForIncrements[u], 4), Lexed(ForBodies[b], 5)),
      other |-> WhileTokens(Lexed(ForInitializers[i], 2), Lexed(ForConditions[c], 3),
                            Lexed(ForIncrements[u], 4), Lexed(ForBodies[b], 5))] :
        i \in DOMAIN ForInitializers, c \in DOMAIN ForConditions,
        u \in DOMAIN ForIncrements, b \in DOMAIN ForBodies}

\* Declarations, each on a line of its own: two that parse and three that
\* do not (no variable name, no expression, no right operand).
Declarations ==
    [var |-> <<"var", "a", "=", "1", ";">>,
     print |-> <<"print", "a", ";">>,
     no_name |-> <<"var", "=", "1", ";">>,
     no_expression |-> <<"print", ";">>,
     no_operand |-> <<"a", "+", ";">>]

WrongDeclarations == {"no_name", "no_expression", "no_operand"}

DeclarationInputs ==
    {[family |-> "declarations", decls |-> decls,
      tokens |-> Concat([i \in 1..Len(decls) |-> Lexed(Declarations[decls[i]], i)])
                 \o <<Eof(Len(decls) + 1)>>,
      other |-> <<>>] :
        decls \in UNION {[1..n -> DOMAIN Declarations] : n \in 1..MaxDecls}}

\* Assignments `target = value ;` with the target and the `=` on line 1 and
\* the value on line 2.
Targets ==
    [variable |-> <<"a">>, get |-> <<"a", ".", "b">>, get_call |-> <<"a", "(", ")", ".", "b">>,
     number |-> <<"1">>, string |-> <<"\"s\"">>, grouping |-> <<"(", "a", ")">>,
     sum |-> <<"a", "+", "b">>, call |-> <<"a", "(", ")">>, unary |-> <<"-", "a">>,
     this |-> <<"this">>]

AssignedValues ==
    [name |-> <<"c">>, number |-> <<"2">>, sum |-> <<"c", "+", "2">>,
     get |-> <<"c", ".", "d">>, assign |-> <<"c", "=", "d">>]

AssignmentInputs ==
    {[family |-> "assignment", target |-> t, value |-> v,
      tokens |-> Lexed(Targets[t] \o <<"=">>, 1)
                 \o Lexed(AssignedValues[v] \o <<";">>, 2) \o <<Eof(3)>>,
      other |-> <<>>] :
        t \in DOMAIN Targets, v \in DOMAIN AssignedValues}

ParserInputs == ExpressionInputs \cup ForInputs \cup DeclarationInputs \cup AssignmentInputs

ParseInit ==
    /\ DriverIdle
    /\ envs = <<Environment_new(NoRef)>>
    /\ \E input \in ParserInputs :
           call = [op |-> "tokens", input |-> input, result |-> None,
                   reported |-> <<>>, other_result |-> None]

\* Parser::new(tokens).parse() on the tokens of the input and, where the
\* input has a second token sequence, on that one too.
PParse ==
    /\ call.op = "tokens"
    /\ LET r == Parser_parse(Parser_new(call.input.tokens))
       IN call' = [call EXCEPT
                     !.op = "parse",
                     !.result = r.res,
                     !.reported = r.p.reported,
                     !.other_result =
                         IF call.input.other = <<>> THEN None
                         ELSE Parser_parse(Parser_new(call.input.other)).res]
    /\ UNCHANGED envs
    /\ DriverUnchanged

ParseNext == PParse

SpecParse == ParseInit /\ [][ParseNext]_vars


\* The while loop of a parsed for statement: inside the block that holds the
\* initializer, when there is one.
ForLoop(input, stmt) ==
    IF input.initializer = "none" THEN stmt ELSE stmt.statements[2]

\* C16: for (I; C; U) B parses without error to exactly the tree that
\* { I; while (C) { B; U; } } parses to, the same tokens standing for I, C, U
\* and B: the condition is the literal true when C is omitted, there is no
\* outer block when I is omitted and no inner block when U is omitted.
C16_ForIsWhile ==
    (call.op = "parse" /\ call.input.family = "for") =>
        /\ call.result.tag = "Ok"
        /\ call.reported = <<>>
        /\ call.result = call.other_result
        /\ Len(call.result.v) = 1
        /\ LET stmt == call.result.v[1]
               loop == ForLoop(call.input, stmt)
           IN /\ call.input.initializer # "none" =>
                    /\ stmt.k = "BlockStmt" /\ Len(stmt.statements) = 2
                    /\ stmt.statements[1].k
                           = (IF call.input.initializer = "var" THEN "VarStmt"
                              ELSE "ExprStmt")
              /\ loop.k = "WhileStmt"
              /\ call.input.condition = "none" =>
                    loop.condition = Literal(LitBoolean(TRUE))
              /\ call.input.condition # "none" => loop.condition.k = "Binary"
              /\ call.input.increment # "none" =>
                    /\ loop.body.k = "BlockStmt" /\ Len(loop.body.statements) = 2
                    /\ loop.body.statements[2].k = "ExprStmt"
                    /\ loop.body.statements[2].expression.k = "Assign"
              /\ call.input.increment = "none" =>
                    loop.body.k = (CASE call.input.body = "print" -> "PrintStmt"
                                     [] call.input.body = "block" -> "BlockStmt"
                                     [] call.input.body = "expr" -> "ExprStmt"
                                     [] call.input.body = "if" -> "IfStmt")

\* for (var i = 0; i < 2; i = i + 1) print i; has been parsed to a block of
\* the declaration and a while loop whose body is a block of the print
\* statement and the increment.
C16_Witness_FullForParsed ==
    /\ call.op = "parse"
    /\ call.input.family = "for"
    /\ call.input.initializer = "var" /\ call.input.condition = "less"
    /\ call.input.increment = "assign" /\ call.input.body = "print"
    /\ call.result.tag = "Ok"
    /\ call.result = call.other_result
    /\ call.result.v[1].statements[2].body.statements[1].k = "PrintStmt"
    /\ call.result.v[1].statements[2].body.statements[2].k = "ExprStmt"


\* The level of a binary operator, the loosest first.
Level(lexeme) ==
    CASE lexeme = "=" -> 1
      [] lexeme = "or" -> 2
      [] lexeme = "and" -> 3
      [] lexeme \in {"==", "!="} -> 4
      [] lexeme \in {"<", "<=", ">", ">="} -> 5
      [] lexeme \in {"+", "-"} -> 6
      [] lexeme \in {"*", "/"} -> 7

\* An assignment whose target is neither a variable nor a property.
Invalid == [k |-> "Invalid"]

\* The tree of a.op.b read off the grammar.
Node(operator, left, right) ==
    IF left = Invalid \/ right = Invalid THEN Invalid
    ELSE IF operator.lexeme = "=" THEN
        (IF left.k = "Variable" THEN Assign(left.name, right)
         ELSE IF left.k = "Get" THEN SetExpr(left.object, left.name, right)
         ELSE Invalid)
    ELSE IF operator.lexeme \in {"or", "and"} THEN Logical(left, operator, right)
    ELSE Binary(left, operator, right)

\* The tree of the operand tokens[lo..hi]: a prefix operator applies to all
\* that follows it, a call to the name before it.
RECURSIVE OperandTree(_, _, _)
OperandTree(tokens, lo, hi) ==
    IF tokens[lo].lexeme \in {"-", "!"}
    THEN Unary(tokens[lo], OperandTree(tokens, lo + 1, hi))
    ELSE IF hi = lo THEN Variable(tokens[lo])
    ELSE Call(Variable(tokens[lo]), tokens[hi], <<>>)

\* The tree of tokens[lo..hi] whose binary operators stand at the positions
\* at: the root is the loosest operator, the last of them when the level
\* associates to the left and the first when it is assignment.
RECURSIVE ExpectedTree(_, _, _, _)
ExpectedTree(tokens, lo, hi, at) ==
    LET inside == {i \in at : lo <= i /\ i <= hi}
        loosest == {i \in inside :
                       \A j \in inside :
                           Level(tokens[i].lexeme) <= Level(tokens[j].lexeme)}
        root == CHOOSE i \in loosest :
                    \A j \in loosest :
                        IF tokens[i].lexeme = "=" THEN i <= j ELSE i >= j
    IN IF inside = {} THEN OperandTree(tokens, lo, hi)
       ELSE Node(tokens[root], ExpectedTree(tokens, lo, root - 1, at),
                 ExpectedTree(tokens, root + 1, hi, at))

\* C17: the operators bind, from the loosest to the tightest: assignment, or,
\* and, equality, comparison, term, factor, unary, call; binary and logical
\* operators of one level group to the left and assignment groups to the
\* right.  The parse of an expression statement is the tree so described, or
\* the error Invalid assignment target when that tree assigns to something
\* that is neither a variable nor a property.
C17_PrecedenceAndAssociativity ==
    (call.op = "parse" /\ call.input.family = "expression") =>
        LET tokens == call.input.tokens
            at == {OperatorPosition(i, call.input.form) :
                       i \in 1..Len(call.input.ops)}
            expected == ExpectedTree(tokens, 1, Len(tokens) - 2, at)
        IN IF expected = Invalid
           THEN /\ call.result.tag = "Err"
                /\ call.result.e.message = "Invalid assignment target."
           ELSE /\ call.result = Ok(<<ExprStmt(expected)>>)
                /\ call.reported = <<>>

\* a + b * c, a - b - c and a = b = c written as trees.
TermOfFactor ==
    Binary(Variable(Id("a", 1, 1)), Token("+", "Plus", 1, 2),
           Binary(Variable(Id("b", 1, 3)), Token("*", "Star", 1, 4),
                  Variable(Id("c", 1, 5))))

C17_Witness_TermOfFactor ==
    /\ call.op = "parse"
    /\ call.input.family = "expression"
    /\ call.input.ops = <<"+", "*">>
    /\ call.input.form = "plain"
    /\ call.result = Ok(<<ExprStmt(TermOfFactor)>>)


\* The lines of the declarations of the input that do not parse.
WrongLines(input) ==
    {i \in 1..Len(input.decls) : input.decls[i] \in WrongDeclarations}

\* C18: after a parse error in one declaration the parser synchronizes and
\* goes on with the declarations that follow, so that the error of every
\* later declaration that does not parse is reported too; parse returns Err
\* exactly when some declaration did not parse.
C18_LaterErrorsReported ==
    (call.op = "parse" /\ call.input.family = "declarations") =>
        /\ (call.result.tag = "Err") = (WrongLines(call.input) # {})
        /\ \A line \in WrongLines(call.input) :
               \E i \in 1..Len(call.reported) : call.reported[i].line = line

\* The kind of expression the target tokens of an assignment input parse to.
TargetKind ==
    [variable |-> "Variable", get |-> "Get", get_call |-> "Get",
     number |-> "Literal", string |-> "Literal", grouping |-> "Grouping",
     sum |-> "Binary", call |-> "Call", unary |-> "Unary", this |-> "This"]

\* C19: an assignment whose target is a variable parses to Assign and one
\* whose target is a property to Set; for any other target the parser
\* reports Invalid assignment target. at the `=` token itself (its line, its
\* lexeme) and at no token of the value.
C19_InvalidTargetAtEqual ==
    (call.op = "parse" /\ call.input.family = "assignment") =>
        LET kind == TargetKind[call.input.target]
        IN IF kind = "Variable"
           THEN call.result.tag = "Ok" /\ call.result.v[1].expression.k = "Assign"
           ELSE IF kind = "Get"
           THEN call.result.tag = "Ok" /\ call.result.v[1].expression.k = "Set"
           ELSE /\ call.result = Err(Error("Invalid assignment target.", SyntaxError))
                /\ call.reported = <<[line |-> 1, whr |-> " at '='",
                                      message |-> "Invalid assignment target."]>>


-----------------------------------------------------------------------------
(* The resolver on programs of return statements: a return inside 0 to      *)
(* MaxDepth nested constructs, and after each of these constructs a return  *)
(* in the construct around it.  Every return stands on a line of its own.   *)

\* Number of constructs around the innermost return: 0..MaxDepth.
MaxDepth == 3

\* What encloses a return: a block, a loop, a function, a function that
\* happens to be named init, a method, and the method init of a class.
Contexts == {"block", "while", "function", "function_init", "method", "init"}

Enclose(context, depth, body) ==
    CASE context = "block" -> BlockStmt(body)
      [] context = "while" -> WhileStmt(Literal(LitBoolean(TRUE)), BlockStmt(body))
      [] context = "function" -> FunStmt(Id("f", 2 * depth, 2), <<>>, body)
      [] context = "function_init" -> FunStmt(Id("init", 2 * depth, 2), <<>>, body)
      [] context = "method" ->
             ClassStmt(Id("C", 2 * depth, 2), None,
                       <<FunStmt(Id("m", 2 * depth, 4), <<>>, body)>>)
      [] context = "init" ->
             ClassStmt(Id("C", 2 * depth, 2), None,
                       <<FunStmt(Id("init", 2 * depth, 4), <<>>, body)>>)
      [] context = "subclass" ->
             ClassStmt(Id("D", 2 * depth, 2), Some(Variable(Id("B", 2 * depth, 6))),
                       <<FunStmt(Id("m", 2 * depth, 8), <<>>, body)>>)

\* The line of the return inside depth constructs: the innermost one when
\* inner, the one that follows the next construct otherwise.
ReturnLine(depth, inner) == IF inner THEN 2 * depth + 1 ELSE 2 * depth + 2

\* The statements inside the first depth constructs of path.
RECURSIVE ReturnProgram(_, _, _)
ReturnProgram(path, depth, value) ==
    IF depth = Len(path)
    THEN <<ReturnStmt(Token("return", "Return", ReturnLine(depth, TRUE), 1), value)>>
    ELSE <<Enclose(path[depth + 1], depth + 1,
                   ReturnProgram(path, depth + 1, value)),
           ReturnStmt(Token("return", "Return", ReturnLine(depth, FALSE), 1), value)>>

ReturnValues == {None, Some(Literal(LitNumber(NumInteger(1))))}

ReturnInputs ==
    {[use |-> "return", path |-> path, value |-> value,
      stmts |-> ReturnProgram(path, 0, value)] :
        path \in UNION {[1..n -> Contexts] : n \in 0..MaxDepth},
        value \in ReturnValues}

\* What encloses a this or a super: a block, a function, a method of a class
\* without superclass, a method of a class with one.
ClassContexts == {"block", "function", "method", "subclass"}

\* `this;` or `super.m;` on the given line.
KeywordStmt(keyword, line) ==
    IF keyword = "this" THEN ExprStmt(This(Token("this", "This", line, 1)))
    ELSE ExprStmt(Super(Token("super", "Super", line, 1), Id("m", line, 7)))

\* As ReturnProgram, with the keyword in the place of each return.
RECURSIVE KeywordProgram(_, _, _)
KeywordProgram(path, depth, keyword) ==
    IF depth = Len(path)
    THEN <<KeywordStmt(keyword, ReturnLine(depth, TRUE))>>
    ELSE <<Enclose(path[depth + 1], depth + 1,
                   KeywordProgram(path, depth + 1, keyword)),
           KeywordStmt(keyword, ReturnLine(depth, FALSE))>>

KeywordInputs ==
    {[use |-> "keyword", path |-> path, value |-> keyword,
      stmts |-> KeywordProgram(path, 0, keyword)] :
        path \in UNION {[1..n -> ClassContexts] : n \in 0..MaxDepth},
        keyword \in {"this", "super"}}

\* What encloses the declarations: a block, a function, a method.
DeclareContexts == {"block", "function", "method"}

\* Declarations of x, on the lines 20 and 21:
\*   own_initializer     var x = x;
\*   other_initializer   var x = y;
\*   twice               var x; var x;
\*   shadow              var x; { var x; }
\*   shadowed_initializer var x; { var x = x; }
\*   parameter           fun g(x) { var x; }
\*   parameter_shadow    fun g(x) { { var x; } }
\*   parameters          fun g(x, x) { }
DeclareForms ==
    [own_initializer |->
        <<VarStmt(Id("x", 20, 5), Some(Variable(Id("x", 20, 9))))>>,
     other_initializer |->
        <<VarStmt(Id("x", 20, 5), Some(Variable(Id("y", 20, 9))))>>,
     twice |->
        <<VarStmt(Id("x", 20, 5), None), VarStmt(Id("x", 21, 5), None)>>,
     shadow |->
        <<VarStmt(Id("x", 20, 5), None),
          BlockStmt(<<VarStmt(Id("x", 21, 5), None)>>)>>,
     shadowed_initializer |->
        <<VarStmt(Id("x", 20, 5), None),
          BlockStmt(<<VarStmt(Id("x", 21, 5), Some(Variable(Id("x", 21, 9))))>>)>>,
     parameter |->
        <<FunStmt(Id("g", 20, 5), <<Id("x", 20, 7)>>,
                  <<VarStmt(Id("x", 21, 5), None)>>)>>,
     parameter_shadow |->
        <<FunStmt(Id("g", 20, 5), <<Id("x", 20, 7)>>,
                  <<BlockStmt(<<VarStmt(Id("x", 21, 5), None)>>)>>)>>,
     parameters |->
        <<FunStmt(Id("g", 20, 5), <<Id("x", 20, 7), Id("x", 21, 5)>>, <<>>)>>]

\* The declarations of a form inside the constructs of path.
RECURSIVE DeclareProgram(_, _, _)
DeclareProgram(path, depth, form) ==
    IF depth = Len(path) THEN DeclareForms[form]
    ELSE <<Enclose(path[depth + 1], depth + 1,
                   DeclareProgram(path, depth + 1, form))>>

DeclareInputs ==
    {[use |-> "declare", path |-> path, value |-> form,
      stmts |-> DeclareProgram(path, 0, form)] :
        path \in UNION {[1..n -> DeclareContexts] : n \in 0..MaxDepth},
        form \in DOMAIN DeclareForms}

ResolverInputs == ReturnInputs \cup KeywordInputs \cup DeclareInputs

ResolveInit ==
    /\ DriverIdle
    /\ envs = <<Environment_new(NoRef)>>
    /\ \E input \in ResolverInputs :
           call = [op |-> "program", input |-> input, has_error |-> FALSE,
                   reported |-> <<>>]

\* Resolver::new(interpreter).resolve_stmts(stmts) as Loxer::run calls it.
RResolve ==
    /\ call.op = "program"
    /\ LET r == resolve_stmts(Resolver_new(EmptyMap), call.input.stmts)
       IN call' = [call EXCEPT !.op = "resolve", !.has_error = r.has_error,
                               !.reported = r.reported]
    /\ UNCHANGED envs
    /\ DriverUnchanged

ResolveNext == RResolve

SpecResolve == ResolveInit /\ [][ResolveNext]_vars

\* The error due for a return with the given value inside the first depth
\* constructs of path, read off the nesting: "" for none.
ReturnError_due(path, depth, value) ==
    LET functions == {i \in 1..depth :
                          path[i] \in {"function", "function_init", "method", "init"}}
        nearest == CHOOSE i \in functions : \A j \in functions : j <= i
    IN IF functions = {} THEN "Cannot return from top-level code."
       ELSE IF value # None /\ path[nearest] = "init"
       THEN "Cannot return a value from an initializer."
       ELSE ""

\* The reports due for the returns of an input.
ReportsDue(input) ==
    {[line |-> ReturnLine(depth, depth = Len(input.path)), whr |-> " at 'return'",
      message |-> ReturnError_due(input.path, depth, input.value)] :
        depth \in {d \in 0..Len(input.path) :
                       ReturnError_due(input.path, d, input.value) # ""}}

\* C20: the resolver reports an error for a return exactly when no function
\* or method encloses it (Cannot return from top-level code.) or when it has
\* a value and the nearest function around it is the method init of a class
\* (Cannot return a value from an initializer.).  The function type is
\* restored at the end of a function body: a return after a function
\* declaration is judged by what encloses the declaration.
C20_ReturnErrors ==
    (call.op = "resolve" /\ call.input.use = "return") =>
        /\ {call.reported[i] : i \in 1..Len(call.reported)} = ReportsDue(call.input)
        /\ Len(call.reported) = Cardinality(ReportsDue(call.input))
        /\ call.has_error = (ReportsDue(call.input) # {})

\* class C { init() { fun f() { return 1; } return 1; } } return 1; has been
\* resolved: the return in f is accepted, the one in init and the one at top
\* level, after the class, are reported.
C20_Witness_NestedInInit ==
    /\ call.op = "resolve"
    /\ call.input.use = "return"
    /\ call.input.path = <<"init", "function">>
    /\ call.input.value # None
    /\ call.has_error
    /\ call.reported =
           <<[line |-> 4, whr |-> " at 'return'",
              message |-> "Cannot return a value from an initializer."],
             [line |-> 2, whr |-> " at 'return'",
              message |-> "Cannot return from top-level code."]>>

-----------------------------------------------------------------------------
(* this and super in the resolver, on the programs of KeywordInputs.        *)

\* The error due for the keyword inside the first depth constructs of path,
\* read off the nesting: "" for none.
KeywordError_due(path, depth, keyword) ==
    LET class_bodies == {i \in 1..depth : path[i] \in {"method", "subclass"}}
        innermost == CHOOSE i \in class_bodies : \A j \in class_bodies : j <= i
    IN IF class_bodies = {} THEN "Cannot use '" \o keyword \o "' outside of a class."
       ELSE IF keyword = "super" /\ path[innermost] = "method"
       THEN "Cannot use 'super' in a class with no superclass."
       ELSE ""

\* The reports due for the keywords of an input.
KeywordReportsDue(input) ==
    {[line |-> ReturnLine(depth, depth = Len(input.path)),
      whr |-> " at '" \o input.value \o "'",
      message |-> KeywordError_due(input.path, depth, input.value)] :
        depth \in {d \in 0..Len(input.path) :
                       KeywordError_due(input.path, d, input.value) # ""}}

\* C21: the resolver reports an error for `this` exactly when no class body
\* encloses it, and for `super` exactly when no class body encloses it or the
\* innermost class around it declares no superclass.  The class type is
\* restored at the end of a class body: a keyword after a class declaration
\* is judged by what encloses the declaration.
C21_ThisSuperErrors ==
    (call.op = "resolve" /\ call.input.use = "keyword") =>
        /\ {call.reported[i] : i \in 1..Len(call.reported)}
              = KeywordReportsDue(call.input)
        /\ Len(call.reported) = Cardinality(KeywordReportsDue(call.input))
        /\ call.has_error = (KeywordReportsDue(call.input) # {})

\* class C { m() { class D < B { m() { super.m; } } super.m; } } super.m;
\* has been resolved: the super in D is accepted, the one in C and the one
\* after C are reported.
C21_Witness_SubclassInClass ==
    /\ call.op = "resolve"
    /\ call.input.use = "keyword"
    /\ call.input.path = <<"method", "subclass">>
    /\ call.input.value = "super"
    /\ call.reported =
           <<[line |-> 4, whr |-> " at 'super'",
              message |-> "Cannot use 'super' in a class with no superclass."],
             [line |-> 2, whr |-> " at 'super'",
              message |-> "Cannot use 'super' outside of a class."]>>

-----------------------------------------------------------------------------
(* Declarations in the resolver, on the programs of DeclareInputs.          *)

OwnInitializer ==
    [line |-> 20, whr |-> " at 'x'",
     message |-> "Cannot read local variable in its own initializer."]

AlreadyDeclared ==
    [line |-> 21, whr |-> " at 'x'",
     message |-> "Variable with this name already declared in this scope."]

\* The reports due for a form: global tells whether its first declaration
\* stands at global scope.
DeclareReportsDue(form, global) ==
    CASE form = "own_initializer" -> IF global THEN {} ELSE {OwnInitializer}
      [] form = "twice" -> IF global THEN {} ELSE {AlreadyDeclared}
      [] form = "shadowed_initializer" -> {[OwnInitializer EXCEPT !.line = 21]}
      [] form \in {"parameter", "parameters"} -> {AlreadyDeclared}
      [] form \in {"other_initializer", "shadow", "parameter_shadow"} -> {}

\* C22: in a scope that is not the global one a variable read in its own
\* initializer is reported, and so is the declaration of a name the innermost
\* scope already holds (a second var, a local of a function body named as a
\* parameter); at global scope neither is reported, and a declaration that
\* shadows one of an outer scope is accepted.
C22_DeclarationErrors ==
    (call.op = "resolve" /\ call.input.use = "declare") =>
        LET due == DeclareReportsDue(call.input.value, call.input.path = <<>>)
        IN /\ {call.reported[i] : i \in 1..Len(call.reported)} = due
           /\ Len(call.reported) = Cardinality(due)
           /\ call.has_error = (due # {})

\* fun f() { { var x; var x; } } has been resolved and the second x reported.
C22_Witness_TwiceInBlock ==
    /\ call.op = "resolve"
    /\ call.input.use = "declare"
    /\ call.input.path = <<"function", "block">>
    /\ call.input.value = "twice"
    /\ call.has_error
    /\ call.reported = <<AlreadyDeclared>>

-----------------------------------------------------------------------------
(* The scanner (scanner.rs).  The source is a sequence of characters, each  *)
(* a string of length one; start and current count characters from 0 as in  *)
(* the code.  A Scanner s is the record [source, start, current, line,      *)
(* tokens, had_error, errors].  A token is pushed as [lexeme, token_type,   *)
(* line]: get_token passes Token::new the lexeme, the type, a literal and   *)
(* the line, and Token (token.rs) keeps no literal.                         *)

\* The character peak returns at the end of the source: '\0'.
NUL == "NUL"

Digits == {"0", "1", "2", "3", "4", "5", "6", "7", "8", "9"}

\* 'a'..='z' | 'A'..='Z' | '_', as far as the sources of the model go.
Letters ==
    {"a", "b", "c", "d", "e", "f", "g", "h", "i", "j", "k", "l", "m", "n", "o",
     "p", "q", "r", "s", "t", "u", "v", "w", "x", "y", "z", "_"}

is_digit(c) == c \in Digits

is_alpha(c) == c \in Letters

is_alpha_numeric(c) == is_alpha(c) \/ is_digit(c)

\* &self.source[from..to] as one string.
RECURSIVE Slice(_, _, _)
Slice(source, from, to) ==
    IF from >= to THEN "" ELSE source[from + 1] \o Slice(source, from + 1, to)

Scanner_new(source) ==
    [source |-> source, start |-> 0, current |-> 0, line |-> 1, tokens |-> <<>>,
     had_error |-> FALSE, errors |-> <<>>]

check_single_character_token ==
    [ch \in {"(", ")", "[", "]", "{", "}", ",", ".", "-", "+", ";", "*"} |->
        CASE ch = "(" -> "LeftParen"
          [] ch = ")" -> "RightParen"
          [] ch = "[" -> "LeftBracket"
          [] ch = "]" -> "RightBracket"
          [] ch = "{" -> "LeftBrace"
          [] ch = "}" -> "RightBrace"
          [] ch = "," -> "Comma"
          [] ch = "." -> "Dot"
          [] ch = "-" -> "Minus"
          [] ch = "+" -> "Plus"
          [] ch = ";" -> "Semicolon"
          [] ch = "*" -> "Star"]

check_operator(ch, next_ch) ==
    CASE ch = "!" /\ next_ch = "=" -> Some("BangEqual")
      [] ch = "=" /\ next_ch = "=" -> Some("EqualEqual")
      [] ch = ">" /\ next_ch = "=" -> Some("GreaterEqual")
      [] ch = "<" /\ next_ch = "=" -> Some("LessEqual")
      [] ch = "!" /\ next_ch # "=" -> Some("Bang")
      [] ch = "=" /\ next_ch # "=" -> Some("Equal")
      [] ch = ">" /\ next_ch # "=" -> Some("Greater")
      [] ch = "<" /\ next_ch # "=" -> Some("Less")
      [] OTHER -> None

check_keyword ==
    [text \in {"and", "class", "else", "false", "for", "fun", "if", "nil", "or",
               "print", "return", "super", "this", "true", "var", "while"} |->
        CASE text = "and" -> "And"
          [] text = "class" -> "Class"
          [] text = "else" -> "Else"
          [] text = "false" -> "False"
          [] text = "for" -> "For"
          [] text = "fun" -> "Fun"
          [] text = "if" -> "If"
          [] text = "nil" -> "Nil"
          [] text = "or" -> "Or"
          [] text = "print" -> "Print"
          [] text = "return" -> "Return"
          [] text = "super" -> "Super"
          [] text = "this" -> "This"
          [] text = "true" -> "True"
          [] text = "var" -> "Var"
          [] text = "while" -> "While"]

Scanner_is_end(s) == s.current >= Len(s.source)

Scanner_peak(s) == IF Scanner_is_end(s) THEN NUL ELSE s.source[s.current + 1]

peak_next(s) ==
    IF s.current + 1 >= Len(s.source) THEN NUL ELSE s.source[s.current + 2]

\* The scanner after consume; what consume returns is Scanner_peak before.
Scanner_consume(s) == [s EXCEPT !.current = @ + 1]

\* The scanner after mat; mat returns whether current has moved.
mat(s, expected) ==
    IF Scanner_is_end(s) THEN s
    ELSE IF s.source[s.current + 1] # expected THEN s
    ELSE [s EXCEPT !.current = @ + 1]

get_token(s, token_type) ==
    [lexeme |-> Slice(s.source, s.start, s.current), token_type |-> token_type,
     line |-> s.line]

add_token(s, token_type) == [s EXCEPT !.tokens = Append(@, get_token(s, token_type))]

Scanner_error(s, line, message) ==
    [s EXCEPT !.errors = Append(@, [line |-> line, message |-> message]),
              !.had_error = TRUE]

\* `while self.peak() != '\n' && !self.is_end() { self.consume(); }`
RECURSIVE comment_loop(_)
comment_loop(s) ==
    IF Scanner_peak(s) # "\n" /\ ~Scanner_is_end(s)
    THEN comment_loop(Scanner_consume(s)) ELSE s

\* The first loop of check_string.
RECURSIVE check_string_loop(_)
check_string_loop(s) ==
    IF Scanner_peak(s) # "\"" /\ ~Scanner_is_end(s)
    THEN check_string_loop(
             Scanner_consume(IF Scanner_peak(s) = "\n"
                             THEN [s EXCEPT !.line = @ + 1] ELSE s))
    ELSE s

check_string(s) ==
    LET s1 == check_string_loop(s)
    IN IF Scanner_is_end(s1) THEN Scanner_error(s1, s1.line, "Unterminated string.")
       ELSE add_token(Scanner_consume(s1), "String")

\* `while is_digit(self.peak()) { self.consume(); }`
RECURSIVE digits_loop(_)
digits_loop(s) ==
    IF is_digit(Scanner_peak(s)) THEN digits_loop(Scanner_consume(s)) ELSE s

check_number(s) ==
    LET s1 == digits_loop(s)
        s2 == IF Scanner_peak(s1) = "." /\ is_digit(peak_next(s1))
              THEN digits_loop(Scanner_consume(s1)) ELSE s1
    IN add_token(s2, "Number")

\* `while is_alpha_numeric(self.peak()) { self.consume(); }`
RECURSIVE check_identifier_loop(_)
check_identifier_loop(s) ==
    IF is_alpha_numeric(Scanner_peak(s)) THEN check_identifier_loop(Scanner_consume(s))
    ELSE s

check_identifier(s) ==
    LET s1 == check_identifier_loop(s)
        text == Slice(s1.source, s1.start, s1.current)
    IN IF text \in DOMAIN check_keyword THEN add_token(s1, check_keyword[text])
       ELSE add_token(s1, "Identifier")

\* A plausible slip: the second character of a two-character operator is
\* left for the next token.
operator_end_first(s, token_type) == s

\* The scanner past an operator of the given type, its first character
\* consumed: `BangEqual | EqualEqual | GreaterEqual | LessEqual =>
\* { self.consume(); }`.
operator_end(s, token_type) ==
    IF token_type \in {"BangEqual", "EqualEqual", "GreaterEqual", "LessEqual"}
    THEN Scanner_consume(s) ELSE s

\* One call of scan_token; start = current has been set by scan_tokens.
scan_token(s) ==
    LET c == Scanner_peak(s)
        s1 == Scanner_consume(s)
        operator == check_operator(c, Scanner_peak(s1))
    IN IF c \in DOMAIN check_single_character_token
       THEN add_token(s1, check_single_character_token[c])
       ELSE IF operator # None
       THEN add_token(operator_end(s1, operator.v), operator.v)
       ELSE CASE c = "/" ->
                   IF mat(s1, "/") # s1 THEN comment_loop(mat(s1, "/"))
                   ELSE add_token(s1, "Slash")
              [] c \in {" ", "\r", "\t"} -> s1
              [] c = "\n" -> [s1 EXCEPT !.line = @ + 1]
              [] c = "\"" -> check_string(s1)
              [] is_digit(c) -> check_number(s1)
              [] is_alpha(c) -> check_identifier(s1)
              [] OTHER -> Scanner_error(s1, s1.line, "Unexpected character.")

(* The sources scanned: every text of at most MaxSource characters over     *)
(* SourceCharacters, and the sources of the tests of scanner.rs.            *)

\* Length of the generated sources: 0..MaxSource.
MaxSource == 3

SourceCharacters == {"(", "=", "!", "/", " ", "\n", "\"", "1", ".", "a", "@"}

TestSources ==
    [test_scan_single_character_token |->
        <<"(", ")", "{", "}", ",", ".">>,
     test_scan_operator |->
        <<"=", "=", " ", "!", "=", " ", ">", " ", ">", "=", " ", "<", " ",
          "<", "=">>,
     test_longer_tokens |->
        <<"/", "/", " ", "t", "h", "i", "s", " ", "i", "s", " ", "a", " ",
          "c", "o", "m", "m", "e", "n", "t", "\n", "(", "(", " ", ")", ")",
          "{", "}", " ", "/", "/", " ", "g", "r", "o", "u", "p", "i", "n",
          "g", " ", "s", "t", "u", "f", "f", "\n", "!", "*", "+", "-", "/",
          "=", "<", ">", " ", "<", "=", " ", "=", "=", " ", "/", "/", " ",
          "o", "p", "e", "r", "a", "t", "o", "r", "s">>,
     test_string |->
        <<"\"", "t", "h", "i", "s", " ", "i", "s", " ", "a", " ", "s", "t",
          "r", "i", "n", "g", "\"">>,
     test_number |->
        <<"1", "2", "3", " ", "1", "2", "3", ".", "4", "5", "6">>,
     test_keyword |->
        <<"a", "n", "d", " ", "c", "l", "a", "s", "s", " ", "e", "l", "s",
          "e", " ", "f", "a", "l", "s", "e", " ", "f", "u", "n", " ", "f",
          "o", "r", " ", "i", "f", " ", "n", "i", "l", " ", "o", "r", " ",
          "p", "r", "i", "n", "t", " ", "r", "e", "t", "u", "r", "n", " ",
          "s", "u", "p", "e", "r", " ", "t", "h", "i", "s", " ", "t", "r",
          "u", "e", " ", "v", "a", "r", " ", "w", "h", "i", "l", "e">>,
     test_identifier |->
        <<"a", "+", "b">>]

Sources ==
    UNION {[1..n -> SourceCharacters] : n \in 0..MaxSource}
        \cup {TestSources[t] : t \in DOMAIN TestSources}

\* Scanner::new(source), as Loxer::run makes it.
ScanInit ==
    /\ DriverIdle
    /\ envs = <<Environment_new(NoRef)>>
    /\ \E source \in Sources : call = [op |-> "scan_tokens", s |-> Scanner_new(source)]

\* One turn of the loop of scan_tokens:
\* `self.start = self.current; self.scan_token();`
scan_tokens_next ==
    /\ call.op = "scan_tokens"
    /\ ~Scanner_is_end(call.s)
    /\ call' = [call EXCEPT !.s = scan_token([call.s EXCEPT !.start = call.s.current])]
    /\ UNCHANGED envs
    /\ DriverUnchanged

\* scan_tokens returns: `while !self.is_end()` has ended.
scan_tokens_return ==
    /\ call.op = "scan_tokens"
    /\ Scanner_is_end(call.s)
    /\ call' = [call EXCEPT !.op = "scanned"]
    /\ UNCHANGED envs
    /\ DriverUnchanged

ScanNext == scan_tokens_next \/ scan_tokens_return

SpecScan == ScanInit /\ [][ScanNext]_vars

-----------------------------------------------------------------------------
(* Properties of the scanner.                                               *)

\* C23: the tokens scan_tokens leaves end with one Eof token and hold no Eof
\* before it, for every source, the empty one included; so wherever the
\* parser stands with no Eof behind it, the token peak reads is inside the
\* sequence.
C23_EofTerminated ==
    call.op = "scanned" =>
        LET tokens == call.s.tokens
        IN /\ tokens # <<>>
           /\ tokens[Len(tokens)].token_type = "Eof"
           /\ \A i \in 1..(Len(tokens) - 1) : tokens[i].token_type # "Eof"
           /\ \A current \in 0..Len(tokens) :
                  (\A i \in 1..current : tokens[i].token_type # "Eof")
                      => current < Len(tokens)

(* The lexemes of a source, read off the text by longest match.             *)

AllIn(t, set) == \A i \in 1..Len(t) : t[i] \in set

\* t is one lexeme: a punctuation mark or operator, a number, a name or
\* keyword, a string.
IsLexeme(t) ==
    \/ Len(t) = 1 /\ t[1] \in {"(", ")", "[", "]", "{", "}", ",", ".", "-", "+", ";",
                               "*", "/", "!", "=", "<", ">"}
    \/ Len(t) = 2 /\ t[1] \in {"!", "=", "<", ">"} /\ t[2] = "="
    \/ Len(t) >= 1 /\ AllIn(t, Digits)
    \/ \E dot \in 2..(Len(t) - 1) :
           /\ t[dot] = "."
           /\ AllIn(SubSeq(t, 1, dot - 1), Digits)
           /\ AllIn(SubSeq(t, dot + 1, Len(t)), Digits)
    \/ Len(t) >= 1 /\ t[1] \in Letters /\ AllIn(t, Letters \cup Digits)
    \/ Len(t) >= 2 /\ t[1] = "\"" /\ t[Len(t)] = "\""
         /\ \A i \in 2..(Len(t) - 1) : t[i] # "\""

\* t yields no token: a blank, or a comment up to the end of its line.
IsBlank(t) ==
    \/ Len(t) = 1 /\ t[1] \in {" ", "\r", "\t", "\n"}
    \/ Len(t) >= 2 /\ t[1] = "/" /\ t[2] = "/" /\ \A i \in 1..Len(t) : t[i] # "\n"

\* The length of the longest lexeme or blank that starts after the first i
\* characters; 0 when none does.
Longest(source, i) ==
    LET lengths == {n \in 1..(Len(source) - i) :
                        LET t == SubSeq(source, i + 1, i + n)
                        IN IsLexeme(t) \/ IsBlank(t)}
    IN IF lengths = {} THEN 0 ELSE CHOOSE n \in lengths : \A k \in lengths : k <= n

\* Every character of the source from i on belongs to a lexeme or a blank.
RECURSIVE WellFormed(_, _)
WellFormed(source, i) ==
    \/ i >= Len(source)
    \/ Longest(source, i) > 0 /\ WellFormed(source, i + Longest(source, i))

\* The kind of a lexeme.
LexemeType(t) ==
    IF t[1] \in Digits THEN "Number"
    ELSE IF t[1] = "\"" THEN "String"
    ELSE token_type_of(Slice(t, 0, Len(t)))

\* The lexemes of a well-formed source from i on, in order, each with its
\* kind.
RECURSIVE Lexemes(_, _)
Lexemes(source, i) ==
    IF i >= Len(source) THEN <<>>
    ELSE LET n == Longest(source, i)
             t == SubSeq(source, i + 1, i + n)
         IN IF IsBlank(t) /\ ~IsLexeme(t) THEN Lexemes(source, i + n)
            ELSE <<[lexeme |-> Slice(t, 0, n), token_type |-> LexemeType(t)]>>
                     \o Lexemes(source, i + n)

\* C24: the tokens scan_tokens leaves are the lexemes of the source, one
\* token each, in source order, and nothing else: blanks and comments give
\* no token, and ==, !=, >= and <= give one token of two characters.
C24_OneTokenPerLexeme ==
    (call.op = "scanned" /\ WellFormed(call.s.source, 0)) =>
        /\ ~call.s.had_error
        /\ [i \in 1..Len(call.s.tokens) |->
               [lexeme |-> call.s.tokens[i].lexeme,
                token_type |-> call.s.tokens[i].token_type]]
             = Lexemes(call.s.source, 0)

\* The source of test_scan_operator, == != > >= < <=, has been scanned to
\* six tokens.
C24_Witness_SixOperators ==
    /\ call.op = "scanned"
    /\ call.s.source = TestSources.test_scan_operator
    /\ [i \in 1..Len(call.s.tokens) |-> call.s.tokens[i].token_type]
         = <<"EqualEqual", "BangEqual", "Greater", "GreaterEqual", "Less",
             "LessEqual">>

-----------------------------------------------------------------------------
(* How the process ends (main.rs, loxer.rs).                                *)

\* main: what it does with args.len() arguments, the program name counted:
\* the mode it runs in, or the code it exits with.
main(args_len) ==
    CASE args_len = 1 -> "PROMPT"
      [] args_len = 2 -> "FILE"
      [] OTHER -> 64

\* The exit status of the process when run has returned to run_file and
\* main ends, or when run has called std::process::exit.
exit_status == IF pc = "exited" THEN exit_code ELSE 0

\* Some phase before execution reported an error.
ErrorReported ==
    \/ scanner # NotRun /\ scanner.had_error
    \/ stmts.tag = "Err"
    \/ resolver # NotRun /\ resolver.has_error

\* C25: a run in file mode ends the process with 65 when the scanner, the
\* parser or the resolver reported an error, with 70 when execution raised a
\* runtime error, with 0 otherwise; more than one command-line argument
\* gives 64.
C25_FileExitCodes ==
    /\ \A args_len \in 3..5 : main(args_len) = 64
    /\ (mode = main(2) /\ pc \in {"returned", "exited"}) =>
           exit_status = IF ErrorReported THEN 65
                         ELSE IF result.tag = "Err" THEN 70
                         ELSE 0

\* C26: in prompt mode no error of a line ends the process: run returns to
\* the loop of run_prompt.
C26_PromptSurvivesErrors ==
    mode = main(1) => pc # "exited"

\* C27: every runtime error Interpreter::interpret returns to the driver is
\* of type ErrorType::RuntimeError(token), the token naming the line the
\* driver prints.
C27_RuntimeErrorsCarryToken ==
    result.tag = "Err" =>
        /\ result.e.error_type.tag = "RuntimeError"
        /\ result.e.error_type.token.line >= 1

-----------------------------------------------------------------------------
(* The chains of environments (env.rs, function.rs, interpreter.rs).        *)

\* The closures of the functions among the values of a map.
ClosuresOf(values) ==
    {values[n].f.closure : n \in {x \in DOMAIN values :
                                      /\ values[x].t = "Callable"
                                      /\ values[x].f.kind = "UserDefined"}}

\* Every environment the interpreter holds a reference to: the current one,
\* the closures of the functions stored in environments and in fields, and
\* the closures of the methods of the classes (for a subclass, the
\* environment that binds "super").
HeldEnvironments ==
    {environment}
        \cup UNION {ClosuresOf(envs[i].values) : i \in DOMAIN envs}
        \cup UNION {ClosuresOf(instances[i].fields) : i \in DOMAIN instances}
        \cup UNION {{classes[i].methods[n].closure : n \in DOMAIN classes[i].methods} :
                        i \in DOMAIN classes}

\* Each environment other than globals was created enclosed by an environment
\* that existed before it.
CreatedInside ==
    \A i \in DOMAIN envs :
        IF i = globals THEN envs[i].enclosing = NoRef
        ELSE envs[i].enclosing \in 1..(i - 1)

\* The chain from e visits no environment twice and ends at globals.
ReachesGlobals(e) ==
    LET chain == Chain(envs, e)
    IN /\ chain # <<>>
       /\ chain[Len(chain)] = globals
       /\ \A i, j \in DOMAIN chain : chain[i] = chain[j] => i = j

\* No step creates an environment out of order, drops one or changes the
\* enclosing link of one.
EnclosingKept ==
    /\ Len(envs') >= Len(envs)
    /\ \A i \in DOMAIN envs : envs'[i].enclosing = envs[i].enclosing

\* C28: following the enclosing links from any environment the interpreter
\* holds (the current one, a closure, the `this` environment of a bound
\* method, the `super` environment of a class) reaches globals without
\* visiting an environment twice: every link was set at creation to an
\* environment that already existed, and no step reassigns it.
C28_ChainsReachGlobals ==
    /\ [](/\ CreatedInside
          /\ HeldEnvironments \subseteq DOMAIN envs
          /\ \A e \in DOMAIN envs : ReachesGlobals(e))
    /\ [][EnclosingKept]_vars

\* A method of a subclass runs: the current environment is the frame of the
\* call, enclosed by the environment binding `this`, enclosed by the one
\* binding `super`.
C28_Witness_ThisInsideSuper ==
    /\ pc = "executing"
    /\ environment # globals
    /\ envs[environment].enclosing # NoRef
    /\ "this" \in DOMAIN envs[envs[environment].enclosing].values
    /\ envs[envs[environment].enclosing].enclosing # NoRef
    /\ "super" \in DOMAIN envs[envs[envs[environment].enclosing].enclosing].values

-----------------------------------------------------------------------------
(* Resolved depths against the environments of the run (resolver.rs,        *)
(* interpreter.rs).                                                          *)

\* The token the interpreter is about to look up in the side table: the name
\* of a Variable, the keyword of This or Super, or the name of an Assign
\* whose value has just been evaluated.
LookedUp ==
    IF pc # "executing" THEN None
    ELSE IF ctl.m = "eval" /\ ctl.expr.k = "Variable" THEN Some(ctl.expr.name)
    ELSE IF ctl.m = "eval" /\ ctl.expr.k \in {"This", "Super"} THEN Some(ctl.expr.keyword)
    ELSE IF Returned("assign") THEN Some(Top.name)
    ELSE None

\* The environment reached from the current one by exactly k enclosing links
\* exists and binds the lexeme in its own map.
BoundAt(k, lexeme) ==
    LET chain == Chain(envs, environment)
    IN /\ k + 1 <= Len(chain)
       /\ lexeme \in DOMAIN envs[chain[k + 1]].values

\* C29: whenever a use with a recorded depth k is evaluated, the environment
\* k enclosing links above the current one exists and binds the name in its
\* own map; no lookup ends in the panic of Environment::ancestor.
C29_DepthMirrorsNesting ==
    /\ pc # "panicked"
    /\ (LookedUp # None /\ LookedUp.v \in DOMAIN locals) =>
           BoundAt(locals[LookedUp.v], LookedUp.v.lexeme)

-----------------------------------------------------------------------------
(* The interactive prompt (loxer.rs, Loxer::run_prompt): successive calls   *)
(* of Loxer::run on one Loxer.  Each line gets a new Scanner, Parser and    *)
(* Resolver; the Interpreter, with its environments and its locals, stays.  *)

\* Number of lines read at the prompt.
MaxLines == 3

\* The lines typed at the prompt; every token is on line 1 of its input.
Lines ==
    <<
    \* 1. {var a=1; {print a;}}
    <<BlockStmt(<<VarStmt(Id("a", 1, 6), Some(Literal(LitNumber(NumInteger(1))))),
      BlockStmt(<<PrintStmt(Variable(Id("a", 1, 18)))>>)>>)>>,
    \* 2. var a = 2; print a;
    <<VarStmt(Id("a", 1, 5), Some(Literal(LitNumber(NumInteger(2))))),
      PrintStmt(Variable(Id("a", 1, 18)))>>,
    \* 3. print a;
    <<PrintStmt(Variable(Id("a", 1, 7)))>>
    >>

\* run_prompt is in its loop, `lines` lines read so far.
PromptCall(lines) == [op |-> "run_prompt", lines |-> lines]

PromptInit ==
    /\ pc = "scan"
    /\ mode = main(1)
    /\ scanner = NotRun
    /\ stmts = NotRun
    /\ resolver = NotRun
    /\ result = NotRun
    /\ envs = Interpreter_new_envs
    /\ environment = globals
    /\ locals = EmptyMap
    /\ classes = <<>>
    /\ instances = <<>>
    /\ ctl = Idle
    /\ stack = <<>>
    /\ printed = <<>>
    /\ exit_code = "NoExit"
    /\ call = PromptCall(1)

\* Loxer::run has returned and the next line is read: run starts again with
\* a new Scanner, Parser and Resolver on the same Interpreter.
readline ==
    /\ pc = "returned"
    /\ call.lines < MaxLines
    /\ call' = PromptCall(call.lines + 1)
    /\ pc' = "scan"
    /\ scanner' = NotRun
    /\ stmts' = NotRun
    /\ resolver' = NotRun
    /\ result' = NotRun
    /\ InterpreterUnchanged
    /\ UNCHANGED <<mode, locals, exit_code>>

\* Parser::parse has returned: Err, or the statements of a line.
ParseLine ==
    /\ pc = "parse"
    /\ \E i \in 0..Len(Lines) :
           LET parsed == IF i = 0 THEN Err(ParseError) ELSE Ok(Lines[i])
           IN /\ stmts' = parsed
              /\ pc' = after_parse(parsed, mode)
              /\ exit_code' = IF after_parse(parsed, mode) = "exited" THEN 65
                              ELSE exit_code
    /\ InterpreterUnchanged
    /\ UNCHANGED <<mode, scanner, resolver, locals, result, call>>

PromptNext ==
    \/ readline \/ Scan \/ ParseLine \/ Resolve
    \/ interpret \/ interpret_next \/ interpret_return \/ run_return
    \/ visit_print_stmt \/ visit_print_stmt_value
    \/ visit_var_stmt \/ visit_var_stmt_value
    \/ visit_block_stmt \/ execute_block_next \/ execute_block_return
    \/ visit_literal \/ visit_variable_expr
    \/ Propagate

SpecPrompt == PromptInit /\ [][PromptNext]_vars

\* The side table the Resolver of the current run computes for its input.
locals_of_input == resolve_stmts(Resolver_new(EmptyMap), stmts.v).locals

\* C30: over successive run calls on one Loxer, a depth is consulted only for
\* the use site it was computed for: when a use is evaluated and the side
\* table has an entry for its token, the Resolver of this input recorded it;
\* a use at global scope of the current input finds no entry, is looked up in
\* globals, and never panics for an ancestor of an earlier input.
C30_NoStaleDepth ==
    /\ pc # "panicked"
    /\ (LookedUp # None /\ LookedUp.v \in DOMAIN locals) =>
           LookedUp.v \in DOMAIN locals_of_input

=============================================================================
